---- MODULE Spec2Model ----
(***************************************************************************)
(* Model of the pooled agent service's access layer:                       *)
(*   - AzureDynamicSessionsService (services/dynamic_sessions_service.py)  *)
(*   - the /sessions router handlers (routers/dynamic_sessions.py)         *)
(*   - AzureBlobStorageService (services/blob_storage_service.py)          *)
(*   - AzureSasTokenService (services/sas_token_service.py)                *)
(*   - the /blobs router handlers (routers/blob_storage.py)                *)
(*   - HealthService and the /health router (services/health_service.py)   *)
(*   - the application factory create_app (core/app.py)                    *)
(*   - confirm_booking.upload_blob (tools.py)                              *)
(* A Python call is an operator that returns an outcome record: the value  *)
(* returned or the exception raised, with the bearer tokens obtained and   *)
(* the requests sent while it ran.  An exception is a class name and a     *)
(* message; a message is the sequence of its text fragments, so that an    *)
(* f-string is a concatenation and "contains" is membership.               *)
(***************************************************************************)
EXTENDS Integers, Sequences, FiniteSets, TLC

VARIABLES
    blobService,   \* the AzureBlobStorageService object (or its failed construction)
    storage,       \* remote object store: locator -> blob or "absent"
    controlPlane,  \* remote control plane: the set of live session ids
    now,           \* wall clock, in hours
    tenantStore,   \* the tenants' containers: (tenant, blob name) -> file or absent
    tmpFiles,      \* the .txt files of /tmp: name -> file or absent
    last           \* the most recent call: operation, arguments, environment, outcome

vars == <<blobService, storage, controlPlane, now, tenantStore, tmpFiles, last>>

----------------------------------------------------------------------------
(* Exceptions *)

\* The direct base class of each exception class the code raises or catches.
Parent(cls) ==
    CASE cls = "SessionNotFoundError"    -> "DynamicSessionsError"
      [] cls = "CodeExecutionError"      -> "DynamicSessionsError"
      [] cls = "DynamicSessionsError"    -> "Exception"
      [] cls = "BlobNotFoundError"       -> "BlobStorageError"
      [] cls = "BlobStorageError"        -> "Exception"
      [] cls = "SasTokenError"           -> "Exception"
      [] cls = "httpx.HTTPStatusError"   -> "Exception"
      [] cls = "httpx.RequestError"      -> "Exception"
      [] cls = "ResourceNotFoundError"   -> "HttpResponseError"
      [] cls = "HttpResponseError"       -> "AzureError"
      [] cls = "ServiceRequestError"     -> "AzureError"
      [] cls = "ClientAuthenticationError" -> "AzureError"
      [] cls = "AzureError"              -> "Exception"
      [] cls = "ValueError"              -> "Exception"
      [] cls = "HTTPException"           -> "Exception"
      [] OTHER                           -> "BaseException"

\* Python's isinstance on exception classes (the test an except clause makes).
RECURSIVE IsInstance(_, _)
IsInstance(cls, base) ==
    IF cls = base THEN TRUE
    ELSE IF cls \in {"Exception", "BaseException", "None"} THEN FALSE
    ELSE IsInstance(Parent(cls), base)

NoExc == [cls |-> "None", msg |-> <<>>, status |-> 0]
NoVal == [kind |-> "none"]
NoEffects == [tokens |-> 0, reqs |-> <<>>]

\* return v
Return(v, eff) == [ok |-> TRUE, val |-> v, exc |-> NoExc,
                   tokens |-> eff.tokens, reqs |-> eff.reqs]
\* raise cls(msg)
Raise(cls, msg, eff) == [ok |-> FALSE, val |-> NoVal,
                         exc |-> [cls |-> cls, msg |-> msg, status |-> 0],
                         tokens |-> eff.tokens, reqs |-> eff.reqs]

Raises(out, cls) == ~out.ok /\ IsInstance(out.exc.cls, cls)
RaisesExactly(out, cls) == ~out.ok /\ out.exc.cls = cls
Range(s) == {s[i] : i \in DOMAIN s}
Mentions(msg, text) == text \in Range(msg)

----------------------------------------------------------------------------
(* The session control plane, as the service sees it *)

SessionIds == {"s1", "s2"}
PoolIds == {"pool-a", "pool-b"}

\* Caller-facing bounds on the code payload.
MinCodeLen == 1
MaxCodeLen == 50000
\* A code payload: its length in characters and whether it runs remotely.
CodeLens == {0, 1, 50000, 50001}
Codes == [len : CodeLens, good : BOOLEAN]

\* What one outbound request can meet besides the control plane's own answer.
Faults == {"none", "not_found", "forbidden", "server_error", "transport"}
TokenEnvs == {"ok", "azure_error", "exception"}
SessionEnvs == [token : TokenEnvs, fault : Faults]

ErrorText == "Syntax error in code"

StatusText(status) ==
    CASE status = 400 -> "400 Bad Request"
      [] status = 403 -> "403 Forbidden"
      [] status = 404 -> "404 Not Found"
      [] status = 500 -> "500 Internal Server Error"
      [] OTHER        -> "200 OK"

Response(status, text, body) ==
    [kind |-> "response", status |-> status, text |-> text, body |-> body]
TransportFailure == [kind |-> "transport", status |-> 0, text |-> "", body |-> NoVal]

\* The control plane's answer to a request about session sid.
ControlPlaneAnswer(op, sid, code, fault, sessions) ==
    IF fault = "transport" THEN TransportFailure
    ELSE IF fault = "forbidden" THEN Response(403, "Forbidden", NoVal)
    ELSE IF fault = "server_error" THEN Response(500, "Internal Server Error", NoVal)
    ELSE IF fault = "not_found" THEN Response(404, "Not found", NoVal)
    ELSE IF op # "create_session" /\ sid \notin sessions
         THEN Response(404, "Session not found", NoVal)
    ELSE IF op = "execute_code" /\ (~code.good \/ code.len = 0)
         THEN Response(400, ErrorText, NoVal)
    ELSE IF op = "execute_code"
         THEN Response(200, "", [kind |-> "json", properties |->
                                   [executionTimeMs |-> 150, result |-> "output"]])
    ELSE IF op = "delete_session" THEN Response(200, "", NoVal)
    ELSE Response(200, "", [kind |-> "json", name |-> sid, properties |->
                              [provisioningState |-> "Succeeded"]])

\* response.raise_for_status() on a 4xx/5xx response: the HTTPStatusError, which
\* carries the response (e.response.status_code).
HTTPStatusErrorMsg(response) == <<"HTTP status error ", StatusText(response.status)>>
RaiseForStatus(response, eff) ==
    [ok |-> FALSE, val |-> NoVal,
     exc |-> [cls |-> "httpx.HTTPStatusError", msg |-> HTTPStatusErrorMsg(response),
              status |-> response.status],
     tokens |-> eff.tokens, reqs |-> eff.reqs]
RequestErrorMsg == <<"All connection attempts failed">>

----------------------------------------------------------------------------
(* AzureDynamicSessionsService *)

\* self.credential.get_token(...), wrapped: only AzureError is translated here.
get_access_token(tokenEnv) ==
    LET eff == [tokens |-> 1, reqs |-> <<>>] IN
    IF tokenEnv = "ok" THEN Return([kind |-> "token", token |-> "bearer"], eff)
    ELSE IF tokenEnv = "azure_error"
         THEN Raise("DynamicSessionsError",
                    <<"Authentication failed: ", "credential unavailable">>, eff)
    ELSE Raise("Exception", <<"Authentication failed">>, eff)

\* The three except clauses every session operation ends with.
SessionHandlers(body) ==
    IF body.ok THEN body
    ELSE IF IsInstance(body.exc.cls, "httpx.HTTPStatusError")
         THEN Raise("DynamicSessionsError", <<"HTTP error: ">> \o body.exc.msg, body)
    ELSE IF IsInstance(body.exc.cls, "httpx.RequestError")
         THEN Raise("DynamicSessionsError", <<"Request error: ">> \o body.exc.msg, body)
    ELSE IF IsInstance(body.exc.cls, "Exception")
         THEN Raise("DynamicSessionsError", <<"Unexpected error: ">> \o body.exc.msg, body)
    ELSE body

SessionRequest(method, path, identifier, payload) ==
    [method |-> method, path |-> path, identifier |-> identifier, payload |-> payload]

\* Variant of execute_code: the request is posted before the token is asked for.
execute_code_request_first(session_id, code, env, sessions) ==
    LET tok == get_access_token(env.token)
        req == SessionRequest("POST", "/code/execute", session_id, code)
        eff == [tokens |-> 1, reqs |-> <<req>>]
        response == ControlPlaneAnswer("execute_code", session_id, code, env.fault, sessions)
        body ==
            IF ~tok.ok THEN [tok EXCEPT !.reqs = <<req>>]
            ELSE IF response.kind = "transport"
                 THEN Raise("httpx.RequestError", RequestErrorMsg, eff)
            ELSE IF response.status = 404
                 THEN Raise("SessionNotFoundError",
                            <<"Session ", session_id, " not found">>, eff)
            ELSE IF response.status = 400
                 THEN Raise("CodeExecutionError",
                            <<"Code execution failed: ", response.text>>, eff)
            ELSE IF response.status >= 400
                 THEN RaiseForStatus(response, eff)
            ELSE Return(response.body, eff)
    IN  SessionHandlers(body)

\* Variant of execute_code: a request that met a transport failure is sent again.
execute_code_retry_once(session_id, code, env, sessions) ==
    LET tok == get_access_token(env.token)
        req == SessionRequest("POST", "/code/execute", session_id, code)
        eff == [tokens |-> 1, reqs |-> <<req>>]
        again == [tokens |-> 1, reqs |-> <<req, req>>]
        response == ControlPlaneAnswer("execute_code", session_id, code, env.fault, sessions)
        body ==
            IF ~tok.ok THEN tok
            ELSE IF response.kind = "transport"
                 THEN Raise("httpx.RequestError", RequestErrorMsg, again)
            ELSE IF response.status = 404
                 THEN Raise("SessionNotFoundError",
                            <<"Session ", session_id, " not found">>, eff)
            ELSE IF response.status = 400
                 THEN Raise("CodeExecutionError",
                            <<"Code execution failed: ", response.text>>, eff)
            ELSE IF response.status >= 400
                 THEN RaiseForStatus(response, eff)
            ELSE Return(response.body, eff)
    IN  SessionHandlers(body)

execute_code(session_id, code, env, sessions) ==
    LET tok == get_access_token(env.token)
        req == SessionRequest("POST", "/code/execute", session_id, code)
        eff == [tokens |-> 1, reqs |-> <<req>>]
        response == ControlPlaneAnswer("execute_code", session_id, code, env.fault, sessions)
        body ==
            IF ~tok.ok THEN tok
            ELSE IF response.kind = "transport"
                 THEN Raise("httpx.RequestError", RequestErrorMsg, eff)
            ELSE IF response.status = 404
                 THEN Raise("SessionNotFoundError",
                            <<"Session ", session_id, " not found">>, eff)
            ELSE IF response.status = 400
                 THEN Raise("CodeExecutionError",
                            <<"Code execution failed: ", response.text>>, eff)
            ELSE IF response.status >= 400
                 THEN RaiseForStatus(response, eff)
            ELSE Return(response.body, eff)
    IN  SessionHandlers(body)

get_session_status(session_id, env, sessions) ==
    LET tok == get_access_token(env.token)
        req == SessionRequest("GET", "/sessions/{session_id}", session_id, NoVal)
        eff == [tokens |-> 1, reqs |-> <<req>>]
        response == ControlPlaneAnswer("get_session_status", session_id, NoVal,
                                       env.fault, sessions)
        body ==
            IF ~tok.ok THEN tok
            ELSE IF response.kind = "transport"
                 THEN Raise("httpx.RequestError", RequestErrorMsg, eff)
            ELSE IF response.status = 404
                 THEN Raise("SessionNotFoundError",
                            <<"Session ", session_id, " not found">>, eff)
            ELSE IF response.status >= 400
                 THEN RaiseForStatus(response, eff)
            ELSE Return(response.body, eff)
    IN  SessionHandlers(body)

delete_session(session_id, env, sessions) ==
    LET tok == get_access_token(env.token)
        req == SessionRequest("DELETE", "/sessions/{session_id}", session_id, NoVal)
        eff == [tokens |-> 1, reqs |-> <<req>>]
        response == ControlPlaneAnswer("delete_session", session_id, NoVal,
                                       env.fault, sessions)
        body ==
            IF ~tok.ok THEN tok
            ELSE IF response.kind = "transport"
                 THEN Raise("httpx.RequestError", RequestErrorMsg, eff)
            ELSE IF response.status = 404
                 THEN Raise("SessionNotFoundError",
                            <<"Session ", session_id, " not found">>, eff)
            ELSE IF response.status >= 400
                 THEN RaiseForStatus(response, eff)
            ELSE Return(NoVal, eff)
    IN  SessionHandlers(body)

\* The pool identifier the creation request carries.
CreateIdentifier == "testid1"

\* Variant of create_session: a 404 answer is reported as a missing session.
create_session_special_404(pool_id, config, newId, env, sessions) ==
    LET tok == get_access_token(env.token)
        req == SessionRequest("POST", "/session", CreateIdentifier, config)
        eff == [tokens |-> 1, reqs |-> <<req>>]
        response == ControlPlaneAnswer("create_session", newId, NoVal, env.fault, sessions)
    IN  IF tok.ok /\ response.kind = "response" /\ response.status = 404
        THEN Raise("SessionNotFoundError", <<"Session ", pool_id, " not found">>, eff)
        ELSE SessionHandlers(
                IF ~tok.ok THEN tok
                ELSE IF response.kind = "transport"
                     THEN Raise("httpx.RequestError", RequestErrorMsg, eff)
                ELSE IF response.status >= 400
                     THEN RaiseForStatus(response, eff)
                ELSE Return(response.body, eff))

create_session(pool_id, config, newId, env, sessions) ==
    LET tok == get_access_token(env.token)
        req == SessionRequest("POST", "/session", CreateIdentifier, config)
        eff == [tokens |-> 1, reqs |-> <<req>>]
        response == ControlPlaneAnswer("create_session", newId, NoVal, env.fault, sessions)
        body ==
            IF ~tok.ok THEN tok
            ELSE IF response.kind = "transport"
                 THEN Raise("httpx.RequestError", RequestErrorMsg, eff)
            ELSE IF response.status >= 400
                 THEN RaiseForStatus(response, eff)
            ELSE Return(response.body, eff)
    IN  SessionHandlers(body)

----------------------------------------------------------------------------
(* The /sessions router: handlers given the injected sessions service *)

NoOutcome == Return(NoVal, NoEffects)

\* What a handler answers: the status, the detail of an HTTPException (or <<>>),
\* and the outcome of the service call it made, if it made one.
HttpAnswer(status, detail, svc) ==
    [status |-> status, detail |-> detail, called |-> TRUE, svc |-> svc,
     calls |-> <<svc>>, response |-> NoVal]
\* The framework answers before the handler runs (request validation).
HttpRejected(status) ==
    [status |-> status, detail |-> <<"validation error">>, called |-> FALSE,
     svc |-> NoOutcome, calls |-> <<>>, response |-> NoVal]

\* The answer with the body and headers the handler returned.
Responding(answer, response) == [answer EXCEPT !.response = response]

\* CodeExecutionRequest.code: Field(min_length=1, max_length=50000)
CodeExecutionRequestValid(code) == code.len >= MinCodeLen /\ code.len <= MaxCodeLen

\* Variant of ExecuteHandlerAnswer: no clause for CodeExecutionError.
ExecuteHandlerAnswer_no_400(out) ==
    IF out.ok THEN HttpAnswer(200, <<>>, out)
    ELSE IF IsInstance(out.exc.cls, "SessionNotFoundError")
         THEN HttpAnswer(404, out.exc.msg, out)
    ELSE HttpAnswer(500, <<"Internal server error">>, out)

\* The except clauses of the two execute handlers.
ExecuteHandlerAnswer(out) ==
    IF out.ok THEN HttpAnswer(200, <<>>, out)
    ELSE IF IsInstance(out.exc.cls, "SessionNotFoundError")
         THEN HttpAnswer(404, out.exc.msg, out)
    ELSE IF IsInstance(out.exc.cls, "CodeExecutionError")
         THEN HttpAnswer(400, out.exc.msg, out)
    ELSE HttpAnswer(500, <<"Internal server error">>, out)

\* The except clauses of the status and delete handlers.
SessionHandlerAnswer(out) ==
    IF out.ok THEN HttpAnswer(200, <<>>, out)
    ELSE IF IsInstance(out.exc.cls, "SessionNotFoundError")
         THEN HttpAnswer(404, out.exc.msg, out)
    ELSE HttpAnswer(500, <<"Internal server error">>, out)

\* The except clauses of the create handler.
CreateHandlerAnswer(out) ==
    IF out.ok THEN HttpAnswer(200, <<>>, out)
    ELSE HttpAnswer(500, <<"Internal server error">>, out)

\* CodeExecutionResponse(session_id=..., status="completed", result=result, ...)
CodeExecutionResponse(session_id, result) ==
    [kind |-> "CodeExecutionResponse", session_id |-> session_id,
     status |-> "completed", result |-> result,
     execution_time_ms |-> result.properties.executionTimeMs]

\* SessionResponse(session_id=..., status=provisioningState, pool_id=..., ...)
SessionResponse(session_id, pool_id, result) ==
    [kind |-> "SessionResponse", session_id |-> session_id,
     status |-> result.properties.provisioningState, pool_id |-> pool_id,
     properties |-> result.properties]

\* The handlers, given what the awaited call on the injected service gives.
\* POST /sessions/{session_id}/execute
execute_code_handler(session_id, code, out) ==
    IF ~CodeExecutionRequestValid(code) THEN HttpRejected(422)
    ELSE IF out.ok
         THEN Responding(ExecuteHandlerAnswer(out),
                         CodeExecutionResponse(session_id, out.val))
    ELSE ExecuteHandlerAnswer(out)

\* POST /sessions/{session_id}/execute/simple: code: str = Body(..., embed=True)
execute_code_simple_handler(session_id, code, out) ==
    IF out.ok
    THEN Responding(ExecuteHandlerAnswer(out),
                    [kind |-> "dict", session_id |-> session_id,
                     status |-> "completed", result |-> out.val])
    ELSE ExecuteHandlerAnswer(out)

\* POST /sessions/
create_session_handler(pool_id, out) ==
    IF out.ok
    THEN Responding(CreateHandlerAnswer(out),
                    SessionResponse(out.val.name, pool_id, out.val))
    ELSE CreateHandlerAnswer(out)

\* GET /sessions/{session_id}
get_session_status_handler(session_id, out) ==
    IF out.ok
    THEN Responding(SessionHandlerAnswer(out),
                    SessionResponse(session_id, "", out.val))
    ELSE SessionHandlerAnswer(out)

\* DELETE /sessions/{session_id}
delete_session_handler(session_id, out) ==
    IF out.ok
    THEN Responding(SessionHandlerAnswer(out),
                    [kind |-> "dict",
                     message |-> <<"Session ", session_id, " deleted successfully">>])
    ELSE SessionHandlerAnswer(out)

\* The execute handlers over AzureDynamicSessionsService.
http_execute_code(session_id, code, env, sessions) ==
    execute_code_handler(session_id, code, execute_code(session_id, code, env, sessions))

http_execute_code_simple(session_id, code, env, sessions) ==
    execute_code_simple_handler(session_id, code,
                                execute_code(session_id, code, env, sessions))

----------------------------------------------------------------------------
(* The remote object store, as the services see it *)

AccountNames == {"", "acct"}
\* "a2V5" is a well-formed (base64) key, "not-base64" is one signing cannot decode.
AccountKeys == {"", "a2V5", "not-base64"}
ConnectionStrings == {"", "conn-ok", "conn-malformed"}
DefaultContainer == "documents"

Containers == {"documents", "docs"}
\* A container argument; "" stands for None (both are falsy in `x or default`).
ContainerArgs == Containers \cup {""}
BlobNames == {"a.txt"}
Locators == Containers \X BlobNames

BlobAbsent == [present |-> FALSE, content |-> <<>>, content_type |-> "",
               etag |-> "", modified |-> 0, metadata |-> {}]
PresentBlobs ==
    { [present |-> TRUE, content |-> <<"h", "i">>, content_type |-> "text/plain",
       etag |-> "v1", modified |-> 0, metadata |-> {}],
      [present |-> TRUE, content |-> <<"x">>, content_type |-> "application/json",
       etag |-> "v2", modified |-> 0, metadata |-> {<<"tenant", "a">>}] }

BlobFaults == {"none", "forbidden", "server_error", "transport"}

BlobRequest(method, via, container, blob) ==
    [method |-> method, via |-> via, container |-> container, blob |-> blob,
     token |-> NoVal]
\* A request on a SAS URL: it names the URL's container and blob and carries the
\* URL's token.
SasRequest(method, url) ==
    [method |-> method, via |-> "sas", container |-> url.text[4], blob |-> url.text[6],
     token |-> url.sas]

\* The storage service's answer to a request for (container, blob).
StorageAnswer(container, blob, fault, store) ==
    IF fault = "transport" THEN TransportFailure
    ELSE IF fault = "forbidden" THEN Response(403, "AuthorizationFailure", NoVal)
    ELSE IF fault = "server_error" THEN Response(500, "InternalError", NoVal)
    ELSE IF ~store[<<container, blob>>].present
         THEN Response(404, "BlobNotFound", NoVal)
    ELSE Response(200, "", store[<<container, blob>>])

\* The same for a request made with a SAS URL: the token must be a read token
\* for the blob asked for and must not have expired.
StorageAnswerSas(url, fault, store, clock) ==
    LET container == url.text[4]
        blob == url.text[6]
    IN  IF fault = "none" /\ (\/ url.sas.expiry <= clock
                              \/ "read" \notin url.sas.permission
                              \/ url.sas.container # container
                              \/ url.sas.blob # blob)
        THEN Response(403, "AuthenticationFailed", NoVal)
        ELSE StorageAnswer(container, blob, fault, store)

----------------------------------------------------------------------------
(* AzureSasTokenService *)

\* generate_blob_sas signs with the decoded account key; a key that is not
\* base64 makes it raise.
KeyDecodes(account_key) == account_key # "not-base64"

\* AzureSasTokenService.__init__
sas_service_init(account_name, account_key, default_container) ==
    IF account_name = "" \/ account_key = ""
    THEN Raise("SasTokenError",
               <<"Account name and account key are required for SAS token generation">>,
               NoEffects)
    ELSE Return([kind |-> "sas_service", account_name |-> account_name,
                 account_key |-> account_key, default_container |-> default_container],
                NoEffects)

\* Variant of generate_blob_read_sas: the token is always for the default container.
generate_blob_read_sas_default_only(sasSvc, blob_name, container_name, expires_in_hours, clock) ==
    LET expiry_time == clock + expires_in_hours
    IN  IF ~KeyDecodes(sasSvc.account_key)
        THEN Raise("SasTokenError",
                   <<"Unexpected error generating SAS token for blob '", blob_name, "': ",
                     "Incorrect padding">>, NoEffects)
        ELSE Return([kind |-> "sas", account |-> sasSvc.account_name,
                     container |-> sasSvc.default_container, blob |-> blob_name,
                     permission |-> {"read"}, issued |-> clock, expiry |-> expiry_time],
                    NoEffects)

generate_blob_read_sas(sasSvc, blob_name, container_name, expires_in_hours, clock) ==
    LET container == IF container_name = "" THEN sasSvc.default_container
                     ELSE container_name
        expiry_time == clock + expires_in_hours
    IN  IF ~KeyDecodes(sasSvc.account_key)
        THEN Raise("SasTokenError",
                   <<"Unexpected error generating SAS token for blob '", blob_name, "': ",
                     "Incorrect padding">>, NoEffects)
        ELSE Return([kind |-> "sas", account |-> sasSvc.account_name,
                     container |-> container, blob |-> blob_name,
                     permission |-> {"read"}, issued |-> clock, expiry |-> expiry_time],
                    NoEffects)

get_blob_url_with_sas(sasSvc, blob_name, container_name, expires_in_hours, clock) ==
    LET container == IF container_name = "" THEN sasSvc.default_container
                     ELSE container_name
        sas_token == generate_blob_read_sas(sasSvc, blob_name, container,
                                            expires_in_hours, clock)
    IN  IF ~sas_token.ok THEN sas_token
        ELSE Return([kind |-> "url",
                     text |-> <<"https://", sasSvc.account_name, ".blob.core.windows.net/",
                                container, "/", blob_name, "?">>,
                     sas |-> sas_token.val],
                    NoEffects)

\* Blob names a caller may ask a delegated URL for: any string; "q?.txt" has a
\* character a URL gives a meaning to.
SasBlobNames == BlobNames \cup {"q?.txt"}

\* The characters of a name, split at the ones a URL gives a meaning to.
Text(name) == IF name = "q?.txt" THEN <<"q", "?", ".txt">> ELSE <<name>>

\* The string the f-string of get_blob_url_with_sas builds: the names are put in
\* as they are, and the token follows the "?".
UrlText(url) ==
    <<url.text[1], url.text[2], ".blob.core.windows.net", "/">>
        \o Text(url.text[4]) \o <<"/">> \o Text(url.text[6]) \o <<"?", url.sas>>

----------------------------------------------------------------------------
(* AzureBlobStorageService *)

\* The outcome of credential selection, with the strategies it attempted.
WithTried(out, tried) ==
    [ok |-> out.ok, val |-> out.val, exc |-> out.exc, tokens |-> out.tokens,
     reqs |-> out.reqs, tried |-> tried]

Client(strategy) == [kind |-> "client", strategy |-> strategy]

\* BlobServiceClient.from_connection_string
from_connection_string(connection_string) ==
    IF connection_string = "conn-malformed"
    THEN Raise("ValueError", <<"Connection string is either blank or malformed.">>,
               NoEffects)
    ELSE Return(Client("connection_string"), NoEffects)

\* Variants of create_blob_service_client with one plausible slip each.
\* (a) the account-name-only branch tested before the account-key branch
create_blob_service_client_identity_first(account_name, account_key, connection_string) ==
    LET body ==
            IF connection_string # ""
            THEN WithTried(from_connection_string(connection_string),
                           <<"connection_string">>)
            ELSE IF account_name # ""
            THEN WithTried(Return(Client("default_identity"), NoEffects),
                           <<"default_identity">>)
            ELSE IF account_name # "" /\ account_key # ""
            THEN WithTried(Return(Client("account_key"), NoEffects), <<"account_key">>)
            ELSE WithTried(Raise("BlobStorageError",
                      <<"No valid authentication method provided for Azure Blob Storage">>,
                      NoEffects), <<>>)
    IN  IF body.ok THEN body
        ELSE WithTried(Raise("BlobStorageError",
                             <<"Failed to initialize blob storage client: ">>
                                 \o body.exc.msg, NoEffects),
                       body.tried)

\* (b) a rejected connection string falls through to the account key
create_blob_service_client_fallback(account_name, account_key, connection_string) ==
    LET conn == from_connection_string(connection_string)
        body ==
            IF connection_string # "" /\ conn.ok
            THEN WithTried(conn, <<"connection_string">>)
            ELSE IF account_name # "" /\ account_key # ""
            THEN WithTried(Return(Client("account_key"), NoEffects),
                           IF connection_string # ""
                           THEN <<"connection_string", "account_key">>
                           ELSE <<"account_key">>)
            ELSE IF connection_string # ""
            THEN WithTried(conn, <<"connection_string">>)
            ELSE IF account_name # ""
            THEN WithTried(Return(Client("default_identity"), NoEffects),
                           <<"default_identity">>)
            ELSE WithTried(Raise("BlobStorageError",
                      <<"No valid authentication method provided for Azure Blob Storage">>,
                      NoEffects), <<>>)
    IN  IF body.ok THEN body
        ELSE WithTried(Raise("BlobStorageError",
                             <<"Failed to initialize blob storage client: ">>
                                 \o body.exc.msg, NoEffects),
                       body.tried)

\* (c) no final else: default credentials are used whatever is configured
create_blob_service_client_no_else(account_name, account_key, connection_string) ==
    LET body ==
            IF connection_string # ""
            THEN WithTried(from_connection_string(connection_string),
                           <<"connection_string">>)
            ELSE IF account_name # "" /\ account_key # ""
            THEN WithTried(Return(Client("account_key"), NoEffects), <<"account_key">>)
            ELSE WithTried(Return(Client("default_identity"), NoEffects),
                           <<"default_identity">>)
    IN  IF body.ok THEN body
        ELSE WithTried(Raise("BlobStorageError",
                             <<"Failed to initialize blob storage client: ">>
                                 \o body.exc.msg, NoEffects),
                       body.tried)

create_blob_service_client(account_name, account_key, connection_string) ==
    LET body ==
            IF connection_string # ""
            THEN WithTried(from_connection_string(connection_string),
                           <<"connection_string">>)
            ELSE IF account_name # "" /\ account_key # ""
            THEN WithTried(Return(Client("account_key"), NoEffects), <<"account_key">>)
            ELSE IF account_name # ""
            THEN WithTried(Return(Client("default_identity"), NoEffects),
                           <<"default_identity">>)
            ELSE WithTried(Raise("BlobStorageError",
                      <<"No valid authentication method provided for Azure Blob Storage">>,
                      NoEffects), <<>>)
    IN  IF body.ok THEN body
        ELSE WithTried(Raise("BlobStorageError",
                             <<"Failed to initialize blob storage client: ">>
                                 \o body.exc.msg, NoEffects),
                       body.tried)

\* AzureBlobStorageService.__init__: the object, or the exception that leaves none.
blob_service_init(account_name, account_key, connection_string, default_container) ==
    LET client == create_blob_service_client(account_name, account_key,
                                             connection_string)
        sas == IF account_name # "" /\ account_key # ""
               THEN sas_service_init(account_name, account_key, default_container)
               ELSE Return(NoVal, NoEffects)
    IN  IF ~client.ok THEN client
        ELSE WithTried(
                Return([state |-> "ready", account_name |-> account_name,
                        account_key |-> account_key,
                        default_container |-> default_container,
                        client |-> client.val.strategy,
                        has_sas |-> sas.val.kind = "sas_service",
                        sas_service |-> sas.val], NoEffects),
                client.tried)

BlobNotFoundMsg(blob_name, container) ==
    <<"Blob '", blob_name, "' not found in container '", container, "'">>

\* Headers of a 200 answer, and the SDK's BlobProperties, for the stored blob.
HeadersOf(blob) ==
    [content_length |-> Len(blob.content), content_type |-> blob.content_type,
     etag |-> <<"\"", blob.etag, "\"">>, last_modified |-> <<"rfc1123", blob.modified>>,
     creation_time |-> <<"rfc1123", blob.modified>>]
PropertiesOf(blob) ==
    [size |-> Len(blob.content), content_type |-> blob.content_type,
     etag |-> <<"\"", blob.etag, "\"">>, last_modified |-> <<"iso8601", blob.modified>>,
     creation_time |-> <<"iso8601", blob.modified>>, metadata |-> blob.metadata]

\* str.strip('"')
StripQuotes(s) == SelectSeq(s, LAMBDA x : x # "\"")

\* The SDK's translation of a failed request into its exception.
SdkRaise(response, eff) ==
    IF response.kind = "transport"
    THEN Raise("ServiceRequestError", <<"Connection failed">>, eff)
    ELSE IF response.status = 404
    THEN Raise("ResourceNotFoundError", <<"The specified blob does not exist.">>, eff)
    ELSE Raise("HttpResponseError", <<"Storage error ", StatusText(response.status)>>, eff)

get_blob_metadata(svc, blob_name, container_name, fault, store, clock) ==
    LET container == IF container_name = "" THEN svc.default_container
                     ELSE container_name
        blob_url == get_blob_url_with_sas(svc.sas_service, blob_name, container, 1, clock)
        sasEff == [tokens |-> 0, reqs |-> <<SasRequest("HEAD", blob_url.val)>>]
        sdkEff == [tokens |-> 0, reqs |-> <<BlobRequest("HEAD", "client", container, blob_name)>>]
        body ==
            IF svc.has_sas
            THEN IF ~blob_url.ok THEN blob_url
                 ELSE LET response == StorageAnswerSas(blob_url.val, fault, store, clock) IN
                      IF response.kind = "transport"
                      THEN Raise("httpx.RequestError", RequestErrorMsg, sasEff)
                      ELSE IF response.status >= 400 THEN RaiseForStatus(response, sasEff)
                      ELSE LET h == HeadersOf(response.body) IN
                           Return([kind |-> "metadata", name |-> blob_name,
                                   container |-> container, size |-> h.content_length,
                                   content_type |-> h.content_type,
                                   last_modified |-> h.last_modified,
                                   etag |-> StripQuotes(h.etag), metadata |-> {},
                                   creation_time |-> h.creation_time], sasEff)
            ELSE LET response == StorageAnswer(container, blob_name, fault, store) IN
                 IF response.kind = "transport" \/ response.status >= 400
                 THEN SdkRaise(response, sdkEff)
                 ELSE LET properties == PropertiesOf(response.body) IN
                      Return([kind |-> "metadata", name |-> blob_name,
                              container |-> container, size |-> properties.size,
                              content_type |-> properties.content_type,
                              last_modified |-> properties.last_modified,
                              etag |-> properties.etag, metadata |-> properties.metadata,
                              creation_time |-> properties.creation_time], sdkEff)
    IN  IF body.ok THEN body
        ELSE IF IsInstance(body.exc.cls, "httpx.HTTPStatusError")
        THEN IF body.exc.status = 404
             THEN Raise("BlobNotFoundError", BlobNotFoundMsg(blob_name, container), body)
             ELSE Raise("BlobStorageError",
                        <<"Failed to retrieve metadata for blob '", blob_name, "': ">>
                            \o body.exc.msg, body)
        ELSE IF IsInstance(body.exc.cls, "ResourceNotFoundError")
        THEN Raise("BlobNotFoundError", BlobNotFoundMsg(blob_name, container), body)
        ELSE IF IsInstance(body.exc.cls, "AzureError")
                \/ IsInstance(body.exc.cls, "SasTokenError")
        THEN Raise("BlobStorageError",
                   <<"Failed to retrieve metadata for blob '", blob_name, "': ">>
                       \o body.exc.msg, body)
        ELSE Raise("BlobStorageError",
                   <<"Unexpected error retrieving metadata for blob '", blob_name, "': ">>
                       \o body.exc.msg, body)

Bool(b) == [kind |-> "bool", b |-> b]

\* Variant of ExistsFromResponse: every answer short of a server error counts.
ExistsFromResponse_below_500(response) == response.status < 500

\* exists = response.status_code == 200
ExistsFromResponse(response) == response.status = 200

blob_exists(svc, blob_name, container_name, fault, store, clock) ==
    LET container == IF container_name = "" THEN svc.default_container
                     ELSE container_name
        blob_url == get_blob_url_with_sas(svc.sas_service, blob_name, container, 1, clock)
        sasEff == [tokens |-> 0, reqs |-> <<SasRequest("HEAD", blob_url.val)>>]
        sdkEff == [tokens |-> 0, reqs |-> <<BlobRequest("HEAD", "client", container, blob_name)>>]
        body ==
            IF svc.has_sas
            THEN IF ~blob_url.ok THEN blob_url
                 ELSE LET response == StorageAnswerSas(blob_url.val, fault, store, clock) IN
                      IF response.kind = "transport"
                      THEN Raise("httpx.RequestError", RequestErrorMsg, sasEff)
                      ELSE Return(Bool(ExistsFromResponse(response)), sasEff)
            ELSE LET response == StorageAnswer(container, blob_name, fault, store) IN
                 \* BlobClient.exists(): False on ResourceNotFoundError, else as any call
                 IF response.kind = "response" /\ response.status = 404
                 THEN Return(Bool(FALSE), sdkEff)
                 ELSE IF response.kind = "transport" \/ response.status >= 400
                 THEN SdkRaise(response, sdkEff)
                 ELSE Return(Bool(TRUE), sdkEff)
    IN  IF body.ok THEN body
        ELSE IF IsInstance(body.exc.cls, "httpx.HTTPStatusError")
        THEN IF body.exc.status = 404
             THEN Return(Bool(FALSE), body)
             ELSE Raise("BlobStorageError",
                        <<"Failed to check existence of blob '", blob_name, "': ">>
                            \o body.exc.msg, body)
        ELSE IF IsInstance(body.exc.cls, "AzureError")
                \/ IsInstance(body.exc.cls, "SasTokenError")
        THEN Raise("BlobStorageError",
                   <<"Failed to check existence of blob '", blob_name, "': ">>
                       \o body.exc.msg, body)
        ELSE Raise("BlobStorageError",
                   <<"Unexpected error checking existence of blob '", blob_name, "': ">>
                       \o body.exc.msg, body)

\* The except clauses of get_blob.
GetBlobHandlers(body, blob_name, container) ==
    IF body.ok THEN body
    ELSE IF IsInstance(body.exc.cls, "httpx.HTTPStatusError")
    THEN IF body.exc.status = 404
         THEN Raise("BlobNotFoundError", BlobNotFoundMsg(blob_name, container), body)
         ELSE Raise("BlobStorageError",
                    <<"Failed to retrieve blob '", blob_name, "': ">> \o body.exc.msg, body)
    ELSE IF IsInstance(body.exc.cls, "ResourceNotFoundError")
    THEN Raise("BlobNotFoundError", BlobNotFoundMsg(blob_name, container), body)
    ELSE IF IsInstance(body.exc.cls, "AzureError")
            \/ IsInstance(body.exc.cls, "SasTokenError")
    THEN Raise("BlobStorageError",
               <<"Failed to retrieve blob '", blob_name, "': ">> \o body.exc.msg, body)
    ELSE Raise("BlobStorageError",
               <<"Unexpected error retrieving blob '", blob_name, "': ">>
                   \o body.exc.msg, body)

Bytes(content) == [kind |-> "bytes", content |-> content]
\* BytesIO(content)
BytesIO(content) == [kind |-> "stream", content |-> content]

\* The download both get_blob and get_blob_stream make when a SAS service is present:
\* a GET on the SAS URL, raise_for_status(), response.content.
SasDownload(svc, blob_name, container, fault, store, clock) ==
    LET blob_url == get_blob_url_with_sas(svc.sas_service, blob_name, container, 1, clock)
        sasEff == [tokens |-> 0, reqs |-> <<SasRequest("GET", blob_url.val)>>]
    IN  IF ~blob_url.ok THEN blob_url
        ELSE LET response == StorageAnswerSas(blob_url.val, fault, store, clock) IN
             IF response.kind = "transport"
             THEN Raise("httpx.RequestError", RequestErrorMsg, sasEff)
             ELSE IF response.status >= 400 THEN RaiseForStatus(response, sasEff)
             ELSE Return(Bytes(response.body.content), sasEff)

get_blob(svc, blob_name, container_name, fault, store, clock) ==
    LET container == IF container_name = "" THEN svc.default_container
                     ELSE container_name
        \* one call of the SDK's blob client, counted as one request
        sdkEff == [tokens |-> 0, reqs |-> <<BlobRequest("GET", "client", container, blob_name)>>]
        body ==
            IF svc.has_sas
            THEN SasDownload(svc, blob_name, container, fault, store, clock)
            ELSE LET response == StorageAnswer(container, blob_name, fault, store) IN
                 \* blob_client.download_blob().readall()
                 IF response.kind = "transport" \/ response.status >= 400
                 THEN SdkRaise(response, sdkEff)
                 ELSE Return(Bytes(response.body.content), sdkEff)
    IN  GetBlobHandlers(body, blob_name, container)

get_blob_stream(svc, blob_name, container_name, fault, store, clock) ==
    LET container == IF container_name = "" THEN svc.default_container
                     ELSE container_name
        content == IF svc.has_sas
                   THEN SasDownload(svc, blob_name, container, fault, store, clock)
                   ELSE get_blob(svc, blob_name, container, fault, store, clock)
        body == IF content.ok THEN Return(BytesIO(content.val.content), content)
                ELSE content
    IN  IF body.ok THEN body
        ELSE IF IsInstance(body.exc.cls, "httpx.HTTPStatusError")
        THEN IF body.exc.status = 404
             THEN Raise("BlobNotFoundError", BlobNotFoundMsg(blob_name, container), body)
             ELSE Raise("BlobStorageError",
                        <<"Failed to stream blob '", blob_name, "': ">> \o body.exc.msg, body)
        ELSE IF \/ IsInstance(body.exc.cls, "SasTokenError")
                \/ IsInstance(body.exc.cls, "BlobStorageError")
                \/ IsInstance(body.exc.cls, "BlobNotFoundError")
        THEN body
        ELSE Raise("BlobStorageError",
                   <<"Unexpected error streaming blob '", blob_name, "': ">>
                       \o body.exc.msg, body)

----------------------------------------------------------------------------
(* The /blobs router: handlers given the injected blob storage service *)

\* raise HTTPException(status_code=status, detail=detail)
RaiseHttp(status, detail, eff) ==
    [ok |-> FALSE, val |-> NoVal,
     exc |-> [cls |-> "HTTPException", msg |-> detail, status |-> status],
     tokens |-> eff.tokens, reqs |-> eff.reqs]

\* A handler's answer after the service calls it made, in order; the last one is
\* the call that raised, or the final call.
HttpAnswerOf(status, detail, calls) ==
    [status |-> status, detail |-> detail, called |-> TRUE,
     svc |-> calls[Len(calls)], calls |-> calls, response |-> NoVal]

\* Variant of BlobHandlerAnswer: a storage error's own message is the detail.
BlobHandlerAnswer_leaks_detail(calls) ==
    LET out == calls[Len(calls)] IN
    IF out.ok THEN HttpAnswerOf(200, <<>>, calls)
    ELSE IF IsInstance(out.exc.cls, "BlobNotFoundError")
         THEN HttpAnswerOf(404, out.exc.msg, calls)
    ELSE HttpAnswerOf(500, out.exc.msg, calls)

\* The except clauses of the content, stream and metadata handlers.
BlobHandlerAnswer(calls) ==
    LET out == calls[Len(calls)] IN
    IF out.ok THEN HttpAnswerOf(200, <<>>, calls)
    ELSE IF IsInstance(out.exc.cls, "BlobNotFoundError")
         THEN HttpAnswerOf(404, out.exc.msg, calls)
    ELSE IF \/ IsInstance(out.exc.cls, "BlobStorageError")
            \/ IsInstance(out.exc.cls, "SasTokenError")
         THEN HttpAnswerOf(500, <<"Internal server error">>, calls)
    ELSE HttpAnswerOf(500, <<"Internal server error">>, calls)

\* What a handler's two service calls meet: the fault of each request, and whether
\* another party deleted or replaced the blob between them.  No handler makes its
\* second call after a first request that met a fault, so only the first fault
\* matters then.
BlobHandlerEnvs ==
    { e \in [fault : BlobFaults, fault2 : BlobFaults, deleted_between : BOOLEAN,
              replaced_between : BOOLEAN] :
        /\ e.fault # "none"
                => (e.fault2 = "none" /\ ~e.deleted_between /\ ~e.replaced_between)
        /\ e.deleted_between => (e.fault2 = "none" /\ ~e.replaced_between)
        /\ e.replaced_between => e.fault2 = "none" }

\* What another party that replaces a blob writes: other content, a new ETag.
Replacement(blob) == CHOOSE b \in PresentBlobs : b.content # blob.content

StoreAtSecondCall(svc, blob_name, container_name, env, store) ==
    LET container == IF container_name = "" THEN svc.default_container
                     ELSE container_name
    IN  IF env.deleted_between
        THEN [store EXCEPT ![<<container, blob_name>>] = BlobAbsent]
        ELSE IF env.replaced_between /\ store[<<container, blob_name>>].present
        THEN [store EXCEPT ![<<container, blob_name>>] = Replacement(@)]
        ELSE store

\* GET /blobs/{blob_name}, given what its two awaited service calls give: the
\* metadata call is made only after get_blob returned.
http_get_blob_content(content, metadata) ==
    IF ~content.ok THEN BlobHandlerAnswer(<<content>>)
    ELSE IF ~metadata.ok THEN BlobHandlerAnswer(<<content, metadata>>)
    ELSE Responding(BlobHandlerAnswer(<<content, metadata>>),
                    [kind |-> "Response", body |-> content.val.content,
                     media_type |-> metadata.val.content_type,
                     headers |-> [content_length |-> Len(content.val.content),
                                  etag |-> metadata.val.etag,
                                  last_modified |-> metadata.val.last_modified]])

\* GET /blobs/{blob_name}/stream
http_get_blob_stream(stream, metadata) ==
    IF ~stream.ok THEN BlobHandlerAnswer(<<stream>>)
    ELSE IF ~metadata.ok THEN BlobHandlerAnswer(<<stream, metadata>>)
    ELSE Responding(BlobHandlerAnswer(<<stream, metadata>>),
                    [kind |-> "StreamingResponse", body |-> stream.val.content,
                     media_type |-> metadata.val.content_type,
                     headers |-> [content_length |-> metadata.val.size,
                                  etag |-> metadata.val.etag,
                                  last_modified |-> metadata.val.last_modified]])

\* GET /blobs/{blob_name}/metadata
http_get_blob_metadata(metadata) == BlobHandlerAnswer(<<metadata>>)

\* The except clauses of check_blob_exists, applied to what its try block did.
ExistsHandlerAnswer(body, blob_name, calls) ==
    IF body.ok THEN HttpAnswerOf(200, <<>>, calls)
    ELSE IF IsInstance(body.exc.cls, "BlobNotFoundError")
         THEN HttpAnswerOf(404, <<"Blob '", blob_name, "' not found">>, calls)
    ELSE IF \/ IsInstance(body.exc.cls, "BlobStorageError")
            \/ IsInstance(body.exc.cls, "SasTokenError")
         THEN HttpAnswerOf(500, <<"Internal server error">>, calls)
    ELSE IF IsInstance(body.exc.cls, "Exception")
         THEN HttpAnswerOf(500, <<"Internal server error">>, calls)
    ELSE HttpAnswerOf(body.exc.status, body.exc.msg, calls)

\* HEAD /blobs/{blob_name}, given what its two awaited service calls give: the
\* metadata call is made only after blob_exists returned True.
http_check_blob_exists(exists, metadata, blob_name) ==
    IF ~exists.ok THEN ExistsHandlerAnswer(exists, blob_name, <<exists>>)
    ELSE IF exists.val.b
         THEN ExistsHandlerAnswer(metadata, blob_name, <<exists, metadata>>)
    ELSE ExistsHandlerAnswer(
            RaiseHttp(404, <<"Blob '", blob_name, "' not found">>, exists),
            blob_name, <<exists>>)

\* get_sas_token_service: the dependency of the SAS endpoint
get_sas_token_service(account_name, account_key, default_container) ==
    IF account_name = "" \/ account_key = ""
    THEN RaiseHttp(500, <<"SAS token service requires account name and key configuration">>,
                   NoEffects)
    ELSE sas_service_init(account_name, account_key, default_container)

\* The except clauses of get_blob_sas_token, applied to what its try block did.
SasHandlerAnswer(body, calls) ==
    LET answer(status, detail) ==
            [status |-> status, detail |-> detail, called |-> TRUE, svc |-> body,
             calls |-> calls, response |-> NoVal]
    IN  IF body.ok THEN answer(200, <<>>)
        ELSE IF IsInstance(body.exc.cls, "SasTokenError")
             THEN answer(500, <<"Failed to generate SAS token">>)
        ELSE IF IsInstance(body.exc.cls, "Exception")
             THEN answer(500, <<"Internal server error">>)
        ELSE answer(body.exc.status, body.exc.msg)

\* GET /blobs/{blob_name}/sas: the handler awaits generate_blob_read_sas and then
\* get_blob_url_with_sas; each reads the clock, and `elapsed` is the time that
\* passes between the two.
http_get_blob_sas_token(account_name, account_key, blob_name, container, expires_in_hours, clock, elapsed) ==
    LET sas_service == get_sas_token_service(account_name, account_key, DefaultContainer)
        sas_token == generate_blob_read_sas(sas_service.val, blob_name, container,
                                            expires_in_hours, clock)
        blob_url == get_blob_url_with_sas(sas_service.val, blob_name, container,
                                          expires_in_hours, clock + elapsed)
    IN  IF ~sas_service.ok
        THEN [status |-> sas_service.exc.status, detail |-> sas_service.exc.msg,
              called |-> FALSE, svc |-> NoOutcome, calls |-> <<>>, response |-> NoVal]
        ELSE IF expires_in_hours < 1 \/ expires_in_hours > 24
        THEN SasHandlerAnswer(
                RaiseHttp(400, <<"expires_in_hours must be between 1 and 24">>, NoEffects),
                <<>>)
        ELSE IF ~sas_token.ok THEN SasHandlerAnswer(sas_token, <<sas_token>>)
        ELSE IF ~blob_url.ok THEN SasHandlerAnswer(blob_url, <<sas_token, blob_url>>)
        ELSE SasHandlerAnswer(
                Return([kind |-> "sas_response", blob_name |-> blob_name,
                        container |-> IF container = "" THEN sas_service.val.default_container
                                      ELSE container,
                        sas_token |-> sas_token.val, blob_url |-> blob_url.val,
                        expires_in_hours |-> expires_in_hours], NoEffects),
                <<sas_token, blob_url>>)

----------------------------------------------------------------------------
(* HealthService and the /health router *)

\* What a dependency check of a HealthCheckInterface gives: True, False, or an
\* exception of its own.
CheckOutcomes ==
    {Return(Bool(TRUE), NoEffects), Return(Bool(FALSE), NoEffects),
     Raise("Exception", <<"check failed">>, NoEffects)}

\* _get_current_timestamp
Timestamp(clock) == <<"iso8601", clock, "Z">>

\* get_basic_health
get_basic_health(service_name, version, clock) ==
    Return([kind |-> "health", status |-> "healthy", timestamp |-> Timestamp(clock),
            service |-> service_name, version |-> version], NoEffects)

\* Variant of get_readiness_status: ready when either check passes.
get_readiness_status_either(database, external_apis, clock) ==
    IF ~database.ok THEN database
    ELSE IF ~external_apis.ok THEN external_apis
    ELSE LET database_ok == database.val.b
             external_apis_ok == external_apis.val.b
         IN  Return([kind |-> "readiness",
                     status |-> IF database_ok \/ external_apis_ok THEN "ready"
                                ELSE "not_ready",
                     timestamp |-> Timestamp(clock),
                     checks |-> [database |-> IF database_ok THEN "ok" ELSE "error",
                                 external_apis |-> IF external_apis_ok THEN "ok"
                                                   ELSE "error"]],
                    NoEffects)

\* get_readiness_status, given what check_database and check_external_apis give;
\* an exception of a check propagates.
get_readiness_status(database, external_apis, clock) ==
    IF ~database.ok THEN database
    ELSE IF ~external_apis.ok THEN external_apis
    ELSE LET database_ok == database.val.b
             external_apis_ok == external_apis.val.b
         IN  Return([kind |-> "readiness",
                     status |-> IF database_ok /\ external_apis_ok THEN "ready"
                                ELSE "not_ready",
                     timestamp |-> Timestamp(clock),
                     checks |-> [database |-> IF database_ok THEN "ok" ELSE "error",
                                 external_apis |-> IF external_apis_ok THEN "ok"
                                                   ELSE "error"]],
                    NoEffects)

\* get_liveness_status of a service constructed at start_time
get_liveness_status(start_time, clock) ==
    Return([kind |-> "liveness", status |-> "alive", timestamp |-> Timestamp(clock),
            uptime_seconds |-> clock - start_time], NoEffects)

\* A handler of the /health router: no try block, so an exception of the service
\* is the framework's 500.
JSONResponse(status_code, out) ==
    IF ~out.ok THEN HttpAnswer(500, <<"Internal Server Error">>, out)
    ELSE Responding(HttpAnswer(status_code, <<>>, out), out.val)

\* GET /health
health_check(health_status) == JSONResponse(200, health_status)

\* GET /health/ready
readiness_check(readiness_status) ==
    JSONResponse(IF readiness_status.ok /\ readiness_status.val.status = "ready"
                 THEN 200 ELSE 503,
                 readiness_status)

\* GET /health/live
liveness_check(liveness_status) == JSONResponse(200, liveness_status)

----------------------------------------------------------------------------
(* The application built by create_app *)

\* The prefixes of the routers create_app includes: root.router, health.router
\* and blob_storage.router.
IncludedRouters == {"/", "/health", "/blobs"}

\* The framework's answer to a path that no included router serves.
NotFound ==
    [status |-> 404, detail |-> <<"Not Found">>, called |-> FALSE, svc |-> NoOutcome,
     calls |-> <<>>, response |-> NoVal]

\* The application's answer to a request under a router's prefix, given what the
\* router's handler answers: the handler runs only if its router is included.
create_app(prefix, answer) == IF prefix \in IncludedRouters THEN answer ELSE NotFound

\* GET /
root ==
    Responding(HttpAnswer(200, <<>>, NoOutcome),
               [kind |-> "dict", message |-> "Pooled Agent Service is running",
                architecture |-> "pooled", version |-> "0.1.0", docs |-> "/docs",
                health |-> "/health"])

----------------------------------------------------------------------------
(* confirm_booking.upload_blob (tools.py) *)

TenantIds == {"tenant-a", "tenant-b"}
\* "/tmp/booking_details.txt", the file every call writes
BookingFile == "booking_details.txt"
\* the .txt files /tmp may hold: the booking file and one of another writer
TmpNames == {BookingFile, "notes.txt"}
\* booking details; "d3" stands for a text longer than the write buffer
Details == {"d1", "d2", "d3"}
ExceedsBuffer(details) == details = "d3"

NoFile == [present |-> FALSE, content |-> <<>>]
File(content) == [present |-> TRUE, content |-> content]

\* f"file uploaded for {details}"
BookingText(details) == <<"file uploaded for ", details>>

\* What a second open() of the booking file reads while the handle that wrote it
\* is still open: open(..., "w") truncated the file, and a write shorter than the
\* buffer is still in the buffer.
OnDisk(details) == IF ExceedsBuffer(details) THEN BookingText(details) ELSE <<>>

\* glob.glob("/tmp/*.txt"): the present files, in an order of the file system's.
GlobOrders(tmp) ==
    LET present == {n \in TmpNames : tmp[n].present} IN
    { order \in UNION {[1..k -> present] : k \in 0..Cardinality(present)} :
        /\ Len(order) = Cardinality(present)
        /\ \A i, j \in DOMAIN order : i # j => order[i] # order[j] }

\* The for loop of upload_blob: each file is uploaded under its base name unless
\* the container has a blob of that name; `state` is overwritten at every file.
RECURSIVE UploadLoop(_, _, _, _)
UploadLoop(booking_files, tmp, tenant_id, acc) ==
    IF booking_files = <<>> THEN acc
    ELSE LET name == Head(booking_files)
             loc == <<tenant_id, name>>
         IN  IF ~acc.store[loc].present
             THEN UploadLoop(Tail(booking_files), tmp, tenant_id,
                             [store |-> [acc.store EXCEPT ![loc] = File(tmp[name].content)],
                              state |-> <<"Successfully Uploaded ", name>>])
             ELSE UploadLoop(Tail(booking_files), tmp, tenant_id,
                             [store |-> acc.store,
                              state |-> <<"Failed to upload ", name, ".">>])

\* upload_blob(details, tenant_id), given the order glob lists the files in and
\* whether constructing the credential raises: the message returned, the
\* containers and /tmp afterwards.  The uploads run inside the `with` block that
\* wrote the booking file; the file is closed, and its text written out, when
\* the function returns.
upload_blob(details, tenant_id, order, credential_fails, tmp, store) ==
    LET during == [tmp EXCEPT ![BookingFile] = File(OnDisk(details))]
        closed == [tmp EXCEPT ![BookingFile] = File(BookingText(details))]
        done == UploadLoop(order, during, tenant_id, [store |-> store, state |-> <<>>])
    IN  IF credential_fails
        THEN [message |-> <<"Error uploading blob: ", "credential unavailable">>,
              store |-> store, tmp |-> closed]
        ELSE IF order = <<>>
        THEN [message |-> <<"No .txt files found to upload.">>,
              store |-> store, tmp |-> closed]
        ELSE [message |-> done.state, store |-> done.store, tmp |-> closed]

----------------------------------------------------------------------------
(* State *)

NoService == [state |-> "none"]
NoHttp == [status |-> 0, detail |-> <<>>, called |-> FALSE, svc |-> NoOutcome,
           calls |-> <<>>, response |-> NoVal]

\* The environment of a call as recorded: what the caller could not choose, and the
\* answer the remote gave (or would have given) to the call's request.
Seen(env, answer) == [token |-> env.token, fault |-> env.fault, answer |-> answer]

Call(op, args, env, out) == [op |-> op, args |-> args, env |-> env, out |-> out,
                             http |-> NoHttp]
HttpCall(op, args, env, http) == [op |-> op, args |-> args, env |-> env, out |-> http.svc,
                                  http |-> http]

Init ==
    /\ blobService = NoService
    /\ storage = [l \in Locators |-> BlobAbsent]
    /\ controlPlane = {}
    /\ now = 0
    /\ tenantStore = [l \in TenantIds \X TmpNames |-> NoFile]
    /\ tmpFiles = [n \in TmpNames |-> NoFile]
    /\ last = Call("init", NoVal, Seen([token |-> "ok", fault |-> "none"], TransportFailure),
                   NoOutcome)

\* The clock advances, up to MaxClock hours.
MaxClock == 2

Tick ==
    /\ now < MaxClock
    /\ now' = now + 1
    /\ UNCHANGED <<blobService, storage, controlPlane, tenantStore, tmpFiles, last>>

----------------------------------------------------------------------------
(* Session operations *)

SvcExecuteCode ==
    \E sid \in SessionIds, code \in Codes, env \in SessionEnvs :
        /\ last' = Call("execute_code", [session_id |-> sid, code |-> code],
                        Seen(env, ControlPlaneAnswer("execute_code", sid, code, env.fault,
                                                     controlPlane)),
                        execute_code(sid, code, env, controlPlane))
        /\ UNCHANGED <<blobService, storage, controlPlane, now, tenantStore, tmpFiles>>

SvcGetSessionStatus ==
    \E sid \in SessionIds, env \in SessionEnvs :
        /\ last' = Call("get_session_status", [session_id |-> sid],
                        Seen(env, ControlPlaneAnswer("get_session_status", sid, NoVal,
                                                     env.fault, controlPlane)),
                        get_session_status(sid, env, controlPlane))
        /\ UNCHANGED <<blobService, storage, controlPlane, now, tenantStore, tmpFiles>>

SvcDeleteSession ==
    \E sid \in SessionIds, env \in SessionEnvs :
        LET out == delete_session(sid, env, controlPlane) IN
        /\ last' = Call("delete_session", [session_id |-> sid],
                        Seen(env, ControlPlaneAnswer("delete_session", sid, NoVal,
                                                     env.fault, controlPlane)),
                        out)
        /\ controlPlane' = IF out.ok THEN controlPlane \ {sid} ELSE controlPlane
        /\ UNCHANGED <<blobService, storage, now, tenantStore, tmpFiles>>

SvcCreateSession ==
    \E pool \in PoolIds, newId \in SessionIds, env \in SessionEnvs :
        LET out == create_session(pool, [timeout |-> 3600], newId, env, controlPlane) IN
        /\ newId \notin controlPlane
        /\ last' = Call("create_session", [pool_id |-> pool, new_id |-> newId],
                        Seen(env, ControlPlaneAnswer("create_session", newId, NoVal,
                                                     env.fault, controlPlane)),
                        out)
        /\ controlPlane' = IF out.ok THEN controlPlane \cup {newId} ELSE controlPlane
        /\ UNCHANGED <<blobService, storage, now, tenantStore, tmpFiles>>

HttpExecuteCode ==
    \E sid \in SessionIds, code \in Codes, env \in SessionEnvs :
        /\ last' = HttpCall("http_execute_code", [session_id |-> sid, code |-> code],
                            Seen(env, ControlPlaneAnswer("execute_code", sid, code,
                                                         env.fault, controlPlane)),
                            http_execute_code(sid, code, env, controlPlane))
        /\ UNCHANGED <<blobService, storage, controlPlane, now, tenantStore, tmpFiles>>

HttpExecuteCodeSimple ==
    \E sid \in SessionIds, code \in Codes, env \in SessionEnvs :
        /\ last' = HttpCall("http_execute_code_simple",
                            [session_id |-> sid, code |-> code],
                            Seen(env, ControlPlaneAnswer("execute_code", sid, code,
                                                         env.fault, controlPlane)),
                            http_execute_code_simple(sid, code, env, controlPlane))
        /\ UNCHANGED <<blobService, storage, controlPlane, now, tenantStore, tmpFiles>>

SessionNext ==
    \/ SvcExecuteCode
    \/ SvcGetSessionStatus
    \/ SvcDeleteSession
    \/ SvcCreateSession
    \/ HttpExecuteCode
    \/ HttpExecuteCodeSimple

SessionSpec == Init /\ [][SessionNext]_vars

----------------------------------------------------------------------------
(* Requests to the /sessions router, over any DynamicSessionsInterface *)

\* What an implementation of DynamicSessionsInterface can give a handler: the
\* operation's result, or an exception of one of the classes the handlers catch.
ServiceResult(op, sid) ==
    IF op = "execute_code"
    THEN [kind |-> "json", properties |-> [executionTimeMs |-> 150, result |-> "output"]]
    ELSE IF op = "delete_session" THEN NoVal
    ELSE [kind |-> "json", name |-> sid, properties |-> [provisioningState |-> "Succeeded"]]

ServiceErrors ==
    {"SessionNotFoundError", "CodeExecutionError", "DynamicSessionsError", "ValueError"}

ServiceErrorText(cls, sid) ==
    CASE cls = "SessionNotFoundError" -> <<"Session ", sid, " not found">>
      [] cls = "CodeExecutionError"   -> <<"Code execution failed: ", "SyntaxError">>
      [] cls = "DynamicSessionsError" -> <<"HTTP error: ", "503">>
      [] OTHER                        -> <<"unexpected">>

ServiceOutcomes(op, sid) ==
    {Return(ServiceResult(op, sid), NoEffects)}
        \cup {Raise(cls, ServiceErrorText(cls, sid), NoEffects) : cls \in ServiceErrors}

Injected == [service |-> "injected"]

RouterExecuteCode ==
    \E sid \in SessionIds, code \in Codes : \E out \in ServiceOutcomes("execute_code", sid) :
        /\ last' = HttpCall("execute_code_handler", [session_id |-> sid, code |-> code],
                            Injected, execute_code_handler(sid, code, out))
        /\ UNCHANGED <<blobService, storage, controlPlane, now, tenantStore, tmpFiles>>

RouterExecuteCodeSimple ==
    \E sid \in SessionIds, code \in Codes : \E out \in ServiceOutcomes("execute_code", sid) :
        /\ last' = HttpCall("execute_code_simple_handler",
                            [session_id |-> sid, code |-> code],
                            Injected, execute_code_simple_handler(sid, code, out))
        /\ UNCHANGED <<blobService, storage, controlPlane, now, tenantStore, tmpFiles>>

RouterCreateSession ==
    \E pool \in PoolIds, sid \in SessionIds : \E out \in ServiceOutcomes("create_session", sid) :
        /\ last' = HttpCall("create_session_handler", [pool_id |-> pool],
                            Injected, create_session_handler(pool, out))
        /\ UNCHANGED <<blobService, storage, controlPlane, now, tenantStore, tmpFiles>>

RouterGetSessionStatus ==
    \E sid \in SessionIds : \E out \in ServiceOutcomes("get_session_status", sid) :
        /\ last' = HttpCall("get_session_status_handler", [session_id |-> sid],
                            Injected, get_session_status_handler(sid, out))
        /\ UNCHANGED <<blobService, storage, controlPlane, now, tenantStore, tmpFiles>>

RouterDeleteSession ==
    \E sid \in SessionIds : \E out \in ServiceOutcomes("delete_session", sid) :
        /\ last' = HttpCall("delete_session_handler", [session_id |-> sid],
                            Injected, delete_session_handler(sid, out))
        /\ UNCHANGED <<blobService, storage, controlPlane, now, tenantStore, tmpFiles>>

SessionsRouterNext ==
    \/ RouterExecuteCode
    \/ RouterExecuteCodeSimple
    \/ RouterCreateSession
    \/ RouterGetSessionStatus
    \/ RouterDeleteSession

SessionsRouterSpec == Init /\ [][SessionsRouterNext]_vars

----------------------------------------------------------------------------
(* Health operations *)

ServiceName == "pooled-agent-service"
Version == "0.1.0"

HealthEnv(database, external_apis) ==
    [database |-> database, external_apis |-> external_apis]
NoChecks == [service |-> "health"]

SvcGetBasicHealth ==
    /\ last' = Call("get_basic_health", [at |-> now], NoChecks,
                    get_basic_health(ServiceName, Version, now))
    /\ UNCHANGED <<blobService, storage, controlPlane, now, tenantStore, tmpFiles>>

SvcGetReadinessStatus ==
    \E database \in CheckOutcomes, external_apis \in CheckOutcomes :
        /\ last' = Call("get_readiness_status", [at |-> now],
                        HealthEnv(database, external_apis),
                        get_readiness_status(database, external_apis, now))
        /\ UNCHANGED <<blobService, storage, controlPlane, now, tenantStore, tmpFiles>>

SvcGetLivenessStatus ==
    \E start_time \in 0..now :
        /\ last' = Call("get_liveness_status", [at |-> now, start_time |-> start_time],
                        NoChecks, get_liveness_status(start_time, now))
        /\ UNCHANGED <<blobService, storage, controlPlane, now, tenantStore, tmpFiles>>

\* get_health_service constructs the HealthService of each request.
HttpHealthCheck ==
    /\ last' = HttpCall("health_check", [at |-> now], NoChecks,
                        health_check(get_basic_health(ServiceName, Version, now)))
    /\ UNCHANGED <<blobService, storage, controlPlane, now, tenantStore, tmpFiles>>

HttpReadinessCheck ==
    \E database \in CheckOutcomes, external_apis \in CheckOutcomes :
        /\ last' = HttpCall("readiness_check", [at |-> now],
                            HealthEnv(database, external_apis),
                            readiness_check(
                                get_readiness_status(database, external_apis, now)))
        /\ UNCHANGED <<blobService, storage, controlPlane, now, tenantStore, tmpFiles>>

HttpLivenessCheck ==
    /\ last' = HttpCall("liveness_check", [at |-> now], NoChecks,
                        liveness_check(get_liveness_status(now, now)))
    /\ UNCHANGED <<blobService, storage, controlPlane, now, tenantStore, tmpFiles>>

HealthNext ==
    \/ Tick
    \/ SvcGetBasicHealth
    \/ SvcGetReadinessStatus
    \/ SvcGetLivenessStatus
    \/ HttpHealthCheck
    \/ HttpReadinessCheck
    \/ HttpLivenessCheck

HealthSpec == Init /\ [][HealthNext]_vars

----------------------------------------------------------------------------
(* Requests to the application *)

InjectedGiving(out) == [service |-> "injected", outcome |-> out]

AppGetRoot ==
    /\ last' = HttpCall("GET /", NoVal, NoChecks, create_app("/", root))
    /\ UNCHANGED <<blobService, storage, controlPlane, now, tenantStore, tmpFiles>>

AppGetHealthReady ==
    \E database \in CheckOutcomes, external_apis \in CheckOutcomes :
        /\ last' = HttpCall("GET /health/ready", [at |-> now],
                            HealthEnv(database, external_apis),
                            create_app("/health",
                                       readiness_check(
                                           get_readiness_status(database, external_apis,
                                                                now))))
        /\ UNCHANGED <<blobService, storage, controlPlane, now, tenantStore, tmpFiles>>

AppPostSessionExecute ==
    \E sid \in SessionIds, code \in Codes :
        \E out \in ServiceOutcomes("execute_code", sid) :
            /\ last' = HttpCall("POST /sessions/{session_id}/execute",
                                [session_id |-> sid, code |-> code], InjectedGiving(out),
                                create_app("/sessions",
                                           execute_code_handler(sid, code, out)))
            /\ UNCHANGED <<blobService, storage, controlPlane, now, tenantStore, tmpFiles>>

AppGetSessionStatus ==
    \E sid \in SessionIds, env \in SessionEnvs :
        /\ last' = HttpCall("GET /sessions/{session_id}", [session_id |-> sid],
                            Seen(env, ControlPlaneAnswer("get_session_status", sid, NoVal,
                                                         env.fault, controlPlane)),
                            create_app("/sessions",
                                       get_session_status_handler(
                                           sid, get_session_status(sid, env,
                                                                   controlPlane))))
        /\ UNCHANGED <<blobService, storage, controlPlane, now, tenantStore, tmpFiles>>

AppNext ==
    \/ AppGetRoot
    \/ AppGetHealthReady
    \/ AppPostSessionExecute
    \/ AppGetSessionStatus

AppSpec == Init /\ [][AppNext]_vars

----------------------------------------------------------------------------
(* Booking uploads *)

\* Another writer leaves a .txt file in /tmp.
TmpWrite ==
    /\ ~tmpFiles["notes.txt"].present
    /\ tmpFiles' = [tmpFiles EXCEPT !["notes.txt"] = File(<<"notes">>)]
    /\ UNCHANGED <<blobService, storage, controlPlane, now, tenantStore, last>>

UploadBlob ==
    \E details \in Details, tenant_id \in TenantIds, credential_fails \in BOOLEAN :
        \E order \in GlobOrders([tmpFiles EXCEPT ![BookingFile] = File(OnDisk(details))]) :
            \E done \in {upload_blob(details, tenant_id, order, credential_fails,
                                      tmpFiles, tenantStore)} :
                /\ last' = Call("upload_blob",
                                [details |-> details, tenant_id |-> tenant_id],
                                [credential_fails |-> credential_fails, order |-> order,
                                 present_before |->
                                     tenantStore[<<tenant_id, BookingFile>>].present],
                                Return([kind |-> "message", text |-> done.message],
                                       NoEffects))
                /\ tenantStore' = done.store
                /\ tmpFiles' = done.tmp
                /\ UNCHANGED <<blobService, storage, controlPlane, now>>

ToolsNext ==
    \/ TmpWrite
    \/ UploadBlob

ToolsSpec == Init /\ [][ToolsNext]_vars

----------------------------------------------------------------------------
(* Blob operations *)

BlobSeen(fault, answer) == [fault |-> fault, answer |-> answer]

\* A caller constructs the blob service from its configuration.
ConstructBlobService ==
    \E name \in AccountNames, key \in AccountKeys, conn \in ConnectionStrings :
        LET out == blob_service_init(name, key, conn, DefaultContainer) IN
        /\ last' = Call("blob_service_init",
                        [account_name |-> name, account_key |-> key,
                         connection_string |-> conn],
                        BlobSeen("none", TransportFailure), out)
        /\ blobService' = IF out.ok THEN out.val ELSE NoService
        /\ UNCHANGED <<storage, controlPlane, now, tenantStore, tmpFiles>>

\* Another party writes or deletes a blob.
RemotePut ==
    \E l \in Locators, b \in PresentBlobs :
        /\ storage[l] # b
        /\ storage' = [storage EXCEPT ![l] = b]
        /\ UNCHANGED <<blobService, controlPlane, now, tenantStore, tmpFiles, last>>

RemoteDelete ==
    \E l \in Locators :
        /\ storage[l].present
        /\ storage' = [storage EXCEPT ![l] = BlobAbsent]
        /\ UNCHANGED <<blobService, controlPlane, now, tenantStore, tmpFiles, last>>

BlobArgs(blob, container) == [blob_name |-> blob, container_name |-> container]
ContainerOf(svc, container_name) ==
    IF container_name = "" THEN svc.default_container ELSE container_name

SvcBlobExists ==
    \E blob \in BlobNames, container \in ContainerArgs, fault \in BlobFaults :
        /\ blobService.state = "ready"
        /\ last' = Call("blob_exists", BlobArgs(blob, container),
                        BlobSeen(fault, StorageAnswer(ContainerOf(blobService, container),
                                                      blob, fault, storage)),
                        blob_exists(blobService, blob, container, fault, storage, now))
        /\ UNCHANGED <<blobService, storage, controlPlane, now, tenantStore, tmpFiles>>

SvcGetBlobMetadata ==
    \E blob \in BlobNames, container \in ContainerArgs, fault \in BlobFaults :
        /\ blobService.state = "ready"
        /\ last' = Call("get_blob_metadata", BlobArgs(blob, container),
                        BlobSeen(fault, StorageAnswer(ContainerOf(blobService, container),
                                                      blob, fault, storage)),
                        get_blob_metadata(blobService, blob, container, fault, storage, now))
        /\ UNCHANGED <<blobService, storage, controlPlane, now, tenantStore, tmpFiles>>

SvcGetBlob ==
    \E blob \in BlobNames, container \in ContainerArgs, fault \in BlobFaults :
        /\ blobService.state = "ready"
        /\ last' = Call("get_blob", BlobArgs(blob, container),
                        BlobSeen(fault, StorageAnswer(ContainerOf(blobService, container),
                                                      blob, fault, storage)),
                        get_blob(blobService, blob, container, fault, storage, now))
        /\ UNCHANGED <<blobService, storage, controlPlane, now, tenantStore, tmpFiles>>

SvcGetBlobStream ==
    \E blob \in BlobNames, container \in ContainerArgs, fault \in BlobFaults :
        /\ blobService.state = "ready"
        /\ last' = Call("get_blob_stream", BlobArgs(blob, container),
                        BlobSeen(fault, StorageAnswer(ContainerOf(blobService, container),
                                                      blob, fault, storage)),
                        get_blob_stream(blobService, blob, container, fault, storage, now))
        /\ UNCHANGED <<blobService, storage, controlPlane, now, tenantStore, tmpFiles>>

BlobNext ==
    \/ Tick
    \/ ConstructBlobService
    \/ RemotePut
    \/ RemoteDelete
    \/ SvcBlobExists
    \/ SvcGetBlobMetadata
    \/ SvcGetBlob
    \/ SvcGetBlobStream

BlobSpec == Init /\ [][BlobNext]_vars

----------------------------------------------------------------------------
(* SAS token operations *)

\* expires_in_hours as a caller may pass it
TtlHours == {-1, 0, 1, 24, 25}
\* the range of expires_in_hours the SAS endpoint accepts
MinTtl == 1
MaxTtl == 24

SasArgs(key, blob, container, hours) ==
    [account_key |-> key, blob_name |-> blob, container_name |-> container,
     expires_in_hours |-> hours, issued |-> now]

SvcGenerateBlobReadSas ==
    \E key \in AccountKeys \ {""}, blob \in SasBlobNames, container \in ContainerArgs,
       hours \in TtlHours :
        LET sasSvc == sas_service_init("acct", key, DefaultContainer).val IN
        /\ last' = Call("generate_blob_read_sas", SasArgs(key, blob, container, hours),
                        BlobSeen("none", TransportFailure),
                        generate_blob_read_sas(sasSvc, blob, container, hours, now))
        /\ UNCHANGED <<blobService, storage, controlPlane, now, tenantStore, tmpFiles>>

SvcGetBlobUrlWithSas ==
    \E key \in AccountKeys \ {""}, blob \in SasBlobNames, container \in ContainerArgs,
       hours \in TtlHours :
        LET sasSvc == sas_service_init("acct", key, DefaultContainer).val IN
        /\ last' = Call("get_blob_url_with_sas", SasArgs(key, blob, container, hours),
                        BlobSeen("none", TransportFailure),
                        get_blob_url_with_sas(sasSvc, blob, container, hours, now))
        /\ UNCHANGED <<blobService, storage, controlPlane, now, tenantStore, tmpFiles>>

\* Time that may pass while a request is handled.
Elapsed == {0, 1}

HttpGetBlobSasToken ==
    \E name \in AccountNames, key \in AccountKeys, blob \in SasBlobNames,
       container \in ContainerArgs, hours \in TtlHours, elapsed \in Elapsed :
        /\ now + elapsed <= MaxClock
        /\ last' = HttpCall("http_get_blob_sas_token",
                            [account_name |-> name, account_key |-> key,
                             blob_name |-> blob, container_name |-> container,
                             expires_in_hours |-> hours, issued |-> now],
                            BlobSeen("none", TransportFailure),
                            http_get_blob_sas_token(name, key, blob, container, hours, now,
                                                    elapsed))
        /\ now' = now + elapsed
        /\ UNCHANGED <<blobService, storage, controlPlane, tenantStore, tmpFiles>>

SasNext ==
    \/ Tick
    \/ SvcGenerateBlobReadSas
    \/ SvcGetBlobUrlWithSas
    \/ HttpGetBlobSasToken

SasSpec == Init /\ [][SasNext]_vars

----------------------------------------------------------------------------
(* Requests to the /blobs router *)

BlobHttpArgs(blob, container) == [blob_name |-> blob, container_name |-> container]
BlobHttpSeen(env, answer) ==
    [fault |-> env.fault, fault2 |-> env.fault2, deleted_between |-> env.deleted_between,
     replaced_between |-> env.replaced_between, answer |-> answer]

\* The metadata call a handler makes after its first service call.
SecondCall(blob, container, env) ==
    get_blob_metadata(blobService, blob, container, env.fault2,
                      StoreAtSecondCall(blobService, blob, container, env, storage), now)

HttpGetBlobContent ==
    /\ blobService.state = "ready"
    /\ \E blob \in BlobNames, container \in ContainerArgs, env \in BlobHandlerEnvs :
        \E content \in {get_blob(blobService, blob, container, env.fault, storage, now)},
           metadata \in {SecondCall(blob, container, env)} :
            /\ last' = HttpCall("http_get_blob_content", BlobHttpArgs(blob, container),
                                BlobHttpSeen(env, StorageAnswer(
                                    ContainerOf(blobService, container), blob, env.fault,
                                    storage)),
                                http_get_blob_content(content, metadata))
            /\ storage' = StoreAtSecondCall(blobService, blob, container, env, storage)
            /\ UNCHANGED <<blobService, controlPlane, now, tenantStore, tmpFiles>>

HttpGetBlobStream ==
    /\ blobService.state = "ready"
    /\ \E blob \in BlobNames, container \in ContainerArgs, env \in BlobHandlerEnvs :
        \E stream \in {get_blob_stream(blobService, blob, container, env.fault, storage,
                                        now)},
           metadata \in {SecondCall(blob, container, env)} :
            /\ last' = HttpCall("http_get_blob_stream", BlobHttpArgs(blob, container),
                                BlobHttpSeen(env, StorageAnswer(
                                    ContainerOf(blobService, container), blob, env.fault,
                                    storage)),
                                http_get_blob_stream(stream, metadata))
            /\ storage' = StoreAtSecondCall(blobService, blob, container, env, storage)
            /\ UNCHANGED <<blobService, controlPlane, now, tenantStore, tmpFiles>>

HttpGetBlobMetadata ==
    /\ blobService.state = "ready"
    /\ \E blob \in BlobNames, container \in ContainerArgs, env \in BlobHandlerEnvs :
        \E metadata \in {get_blob_metadata(blobService, blob, container, env.fault,
                                            storage, now)} :
            /\ env.fault2 = "none" /\ ~env.deleted_between /\ ~env.replaced_between
            /\ last' = HttpCall("http_get_blob_metadata", BlobHttpArgs(blob, container),
                                BlobHttpSeen(env, StorageAnswer(
                                    ContainerOf(blobService, container), blob, env.fault,
                                    storage)),
                                http_get_blob_metadata(metadata))
            /\ UNCHANGED <<blobService, storage, controlPlane, now, tenantStore, tmpFiles>>

HttpCheckBlobExists ==
    /\ blobService.state = "ready"
    /\ \E blob \in BlobNames, container \in ContainerArgs, env \in BlobHandlerEnvs :
        \E exists \in {blob_exists(blobService, blob, container, env.fault, storage, now)},
           metadata \in {SecondCall(blob, container, env)} :
            /\ last' = HttpCall("http_check_blob_exists", BlobHttpArgs(blob, container),
                                BlobHttpSeen(env, StorageAnswer(
                                    ContainerOf(blobService, container), blob, env.fault,
                                    storage)),
                                http_check_blob_exists(exists, metadata, blob))
            /\ storage' = StoreAtSecondCall(blobService, blob, container, env, storage)
            /\ UNCHANGED <<blobService, controlPlane, now, tenantStore, tmpFiles>>

BlobRouterNext ==
    \/ ConstructBlobService
    \/ RemotePut
    \/ RemoteDelete
    \/ HttpGetBlobContent
    \/ HttpGetBlobStream
    \/ HttpGetBlobMetadata
    \/ HttpCheckBlobExists

BlobRouterSpec == Init /\ [][BlobRouterNext]_vars

----------------------------------------------------------------------------
(* The whole program.  The session client reads only the control plane, the blob
   and SAS services and the /blobs router only the store and the clock, the health
   service only the clock, and upload_blob only /tmp and the tenants' containers,
   so each component also has a specification of its own. *)

Next ==
    \/ SessionNext
    \/ SessionsRouterNext
    \/ HealthNext
    \/ AppNext
    \/ ToolsNext
    \/ BlobNext
    \/ SasNext
    \/ BlobRouterNext

Spec == Init /\ [][Next]_vars

----------------------------------------------------------------------------
(* Claims about the session client and its router *)

\* The call in `last` sent its request and the remote answered it with `status`.
Answered(status) ==
    /\ Len(last.out.reqs) = 1
    /\ last.env.answer.kind = "response"
    /\ last.env.answer.status = status

\* C1: when the control plane answers 404 to get_session_status or delete_session,
\* the operation raises SessionNotFoundError (not the generic DynamicSessionsError)
\* and the message mentions the session id.
C1_StatusDeleteNotFound ==
    (last.op \in {"get_session_status", "delete_session"} /\ Answered(404))
        => /\ Raises(last.out, "SessionNotFoundError")
           /\ Mentions(last.out.exc.msg, last.args.session_id)

\* C2: when the control plane answers the execute request with 404, execute_code
\* raises SessionNotFoundError, not the base DynamicSessionsError.
C2_ExecuteNotFound ==
    (last.op = "execute_code" /\ Answered(404))
        => Raises(last.out, "SessionNotFoundError")

\* C3: when the control plane answers the execute request with 400, execute_code
\* raises CodeExecutionError and the message contains the response text verbatim.
C3_ExecuteInvalidRequest ==
    (last.op = "execute_code" /\ Answered(400))
        => /\ Raises(last.out, "CodeExecutionError")
           /\ Mentions(last.out.exc.msg, last.env.answer.text)

\* C4: on both execute endpoints a code payload of length 0 or above 50,000 is
\* rejected before the service obtains a token or sends a request.
C4_CodeLengthRejectedBeforeNetwork ==
    (/\ last.op \in {"http_execute_code", "http_execute_code_simple"}
     /\ ~CodeExecutionRequestValid(last.args.code))
        => /\ last.http.status \in {400, 422}
           /\ last.out.tokens = 0
           /\ last.out.reqs = <<>>

----------------------------------------------------------------------------
(* Claims about credential selection *)

\* A strategy is configured when the settings its branch tests are present.
StrategyConfigured(strategy, args) ==
    CASE strategy = "connection_string" -> args.connection_string # ""
      [] strategy = "account_key"       -> args.account_name # "" /\ args.account_key # ""
      [] strategy = "default_identity"  -> args.account_name # ""
      [] OTHER                          -> FALSE
Configured(args) ==
    {st \in {"connection_string", "account_key", "default_identity"} :
        StrategyConfigured(st, args)}

\* The first strategy of `order` that is configured ("none" when none is).
RECURSIVE FirstConfigured(_, _)
FirstConfigured(order, args) ==
    IF order = <<>> THEN "none"
    ELSE IF Head(order) \in Configured(args) THEN Head(order)
    ELSE FirstConfigured(Tail(order), args)

ClaimedOrder == <<"default_identity", "connection_string", "account_key">>
CodeOrder == <<"connection_string", "account_key", "default_identity">>

\* A configured strategy that cannot produce a client.
StrategyRejected(strategy, args) ==
    strategy = "connection_string" /\ args.connection_string = "conn-malformed"

Constructed == last.op = "blob_service_init"

NoAuthMethodText == "No valid authentication method provided for Azure Blob Storage"

\* C7: with no account name, key or connection string, construction raises a
\* BlobStorageError saying no valid authentication method was provided; no client
\* is created, no strategy is attempted and no request is sent.
C7_NoCredentials ==
    (Constructed /\ Configured(last.args) = {} /\ last.args.connection_string = "")
        => /\ Raises(last.out, "BlobStorageError")
           /\ Mentions(last.out.exc.msg, NoAuthMethodText)
           /\ last.out.tried = <<>>
           /\ last.out.reqs = <<>> /\ last.out.tokens = 0
           /\ blobService = NoService

C7_Witness ==
    /\ Constructed
    /\ last.args = [account_name |-> "", account_key |-> "", connection_string |-> ""]
    /\ Raises(last.out, "BlobStorageError")

----------------------------------------------------------------------------
(* Claims about blob_exists *)

\* get_blob_metadata for the locator of call c, against service svc, remote state
\* store and the fault the call met.
MetadataOfSame(c, svc, store, clock) ==
    get_blob_metadata(svc, c.args.blob_name, c.args.container_name, c.env.fault,
                      store, clock)

\* A step that is a call of blob_exists: the service, the remote state and the clock
\* are those the call ran against.
BlobExistsStep ==
    /\ last'.op = "blob_exists"
    /\ UNCHANGED <<blobService, storage, controlPlane, now, tenantStore, tmpFiles>>

\* C8: blob_exists never raises BlobNotFoundError, and returns False whenever
\* get_blob_metadata for the same locator and remote state raises BlobNotFoundError,
\* on the SAS-URL path and on the direct-client path.
C8_ExistsNeverNotFound ==
    [][BlobExistsStep
        => /\ ~Raises(last'.out, "BlobNotFoundError")
           /\ (Raises(MetadataOfSame(last', blobService, storage, now),
                      "BlobNotFoundError")
                  => (last'.out.ok /\ last'.out.val = Bool(FALSE)))]_vars

\* C8 witness: on the SAS-URL path the blob is absent, get_blob_metadata raises
\* BlobNotFoundError and blob_exists has returned False.
C8_Witness ==
    /\ last.op = "blob_exists"
    /\ blobService.state = "ready" /\ blobService.has_sas
    /\ last.env.fault = "none"
    /\ ~storage[<<ContainerOf(blobService, last.args.container_name),
                  last.args.blob_name>>].present
    /\ Raises(MetadataOfSame(last, blobService, storage, now), "BlobNotFoundError")
    /\ last.out.ok /\ last.out.val = Bool(FALSE)

\* C9: when the storage answers the existence probe with a failure other than
\* not-found, blob_exists raises a domain error instead of returning False.
C9_ExistsPropagatesOtherFailures ==
    (/\ last.op = "blob_exists"
     /\ Len(last.out.reqs) = 1
     /\ \/ last.env.answer.kind = "transport"
        \/ last.env.answer.status \notin {200, 404})
        => Raises(last.out, "BlobStorageError")

----------------------------------------------------------------------------
(* Claims about the SAS token service *)

TtlInRange(hours) == hours >= MinTtl /\ hours <= MaxTtl

\* C10: generate_blob_read_sas and get_blob_url_with_sas reject every
\* expires_in_hours outside [1, 24], so every token minted expires between 1 and 24
\* hours after issuance.
C10_TtlOutOfRangeRejected ==
    last.op \in {"generate_blob_read_sas", "get_blob_url_with_sas"}
        => /\ (~TtlInRange(last.args.expires_in_hours) => ~last.out.ok)
           /\ (last.out.ok =>
                 LET token == IF last.out.val.kind = "url" THEN last.out.val.sas
                              ELSE last.out.val
                 IN  /\ token.expiry >= token.issued + MinTtl
                     /\ token.expiry <= token.issued + MaxTtl)

----------------------------------------------------------------------------
(* Claims about the SAS endpoint and the blob service's access path *)

\* C11: GET /blobs/{blob_name}/sas with expires_in_hours outside [1, 24] answers 400
\* and mints no token; it never answers 500 for an out-of-range expiry.
C11_SasEndpointRejectsWith400 ==
    (/\ last.op = "http_get_blob_sas_token"
     /\ last.http.called
     /\ ~TtlInRange(last.args.expires_in_hours))
        => /\ last.http.status = 400
           /\ last.http.calls = <<>>

BlobReadOps == {"get_blob", "get_blob_stream", "get_blob_metadata", "blob_exists"}
SessionOps == {"execute_code", "create_session", "get_session_status", "delete_session"}

\* C12: every request a read of the blob service sends goes through the directly
\* authenticated client; none is made with a SAS URL, whatever the configuration.
C12_ReadsNeverUseSas ==
    last.op \in BlobReadOps
        => \A i \in DOMAIN last.out.reqs : last.out.reqs[i].via = "client"

\* C13: every public operation of the blob service returns or raises BlobStorageError
\* (or a subclass), and every operation of the session client returns or raises
\* DynamicSessionsError (or a subclass); no other exception crosses the boundary.
C13_TotalOutcome ==
    /\ last.op \in BlobReadOps
            => (last.out.ok \/ Raises(last.out, "BlobStorageError"))
    /\ last.op \in SessionOps
            => (last.out.ok \/ Raises(last.out, "DynamicSessionsError"))

GetBlobStreamStep ==
    /\ last'.op = "get_blob_stream"
    /\ UNCHANGED <<blobService, storage, controlPlane, now, tenantStore, tmpFiles>>

\* C14: against the same service, locator and remote outcome, get_blob_stream raises
\* an error of the class get_blob raises, and returns a stream exactly when get_blob
\* returns bytes, the stream holding those bytes.
C14_StreamMirrorsGetBlob ==
    [][GetBlobStreamStep
        => LET g == get_blob(blobService, last'.args.blob_name, last'.args.container_name,
                             last'.env.fault, storage, now)
               s == last'.out
           IN  /\ s.ok <=> g.ok
               /\ ~g.ok => s.exc.cls = g.exc.cls
               /\ g.ok => (s.val.kind = "stream" /\ s.val.content = g.val.content)]_vars

----------------------------------------------------------------------------
(* Claims about session creation, tokens and retries *)

\* C15: the creation request carries the caller's pool_id: a call with any other
\* pool_id would have sent a different identifier.
C15_CreateUsesPoolId ==
    (last.op = "create_session" /\ Len(last.out.reqs) = 1)
        => \A other \in PoolIds \ {last.args.pool_id} :
              LET out == create_session(other, [timeout |-> 3600], last.args.new_id,
                                        [token |-> last.env.token, fault |-> last.env.fault],
                                        controlPlane)
              IN  out.reqs[1].identifier # last.out.reqs[1].identifier

\* C16: create_session returns the control plane's body unchanged on a 2xx answer,
\* and on every other answer, 404 included, raises the generic DynamicSessionsError
\* and never SessionNotFoundError.
C16_CreateOutcome ==
    (/\ last.op = "create_session"
     /\ Len(last.out.reqs) = 1
     /\ last.env.answer.kind = "response")
        => IF last.env.answer.status \in 200..299
           THEN last.out.ok /\ last.out.val = last.env.answer.body
           ELSE /\ RaisesExactly(last.out, "DynamicSessionsError")
                /\ ~Raises(last.out, "SessionNotFoundError")

C16_Witness ==
    /\ last.op = "create_session"
    /\ Answered(404)
    /\ RaisesExactly(last.out, "DynamicSessionsError")

\* The text of the failure the credential reported, as the raised message holds it.
AuthFailureCarried(out, tokenEnv) ==
    IF tokenEnv = "azure_error"
    THEN Mentions(out.exc.msg, "Authentication failed: ")
         /\ Mentions(out.exc.msg, "credential unavailable")
    ELSE Mentions(out.exc.msg, "Authentication failed")

\* C17: every session operation asks for a token once per invocation and before any
\* request; when the token cannot be obtained it raises DynamicSessionsError whose
\* message carries the authentication failure, and sends no request.
C17_FreshTokenFirst ==
    last.op \in SessionOps
        => /\ last.out.tokens = 1
           /\ last.out.reqs # <<>> => last.env.token = "ok"
           /\ last.env.token # "ok"
                  => /\ RaisesExactly(last.out, "DynamicSessionsError")
                     /\ AuthFailureCarried(last.out, last.env.token)
                     /\ last.out.reqs = <<>>

C17_Witness ==
    /\ last.op = "execute_code"
    /\ last.env.token = "azure_error"
    /\ RaisesExactly(last.out, "DynamicSessionsError")
    /\ last.out.tokens = 1
    /\ last.out.reqs = <<>>

\* Every blob service a configuration can construct, and every content of the store.
BlobServices ==
    { blob_service_init(name, key, conn, DefaultContainer).val :
        <<name, key, conn>> \in
            { c \in AccountNames \X AccountKeys \X ConnectionStrings :
                blob_service_init(c[1], c[2], c[3], DefaultContainer).ok } }
Stores == [Locators -> {BlobAbsent} \cup PresentBlobs]

\* The outcomes of the four reads of a blob service for one call.
BlobReadOutcomes(svc, blob, container, fault, store, clock) ==
    { get_blob(svc, blob, container, fault, store, clock),
      get_blob_stream(svc, blob, container, fault, store, clock),
      get_blob_metadata(svc, blob, container, fault, store, clock),
      blob_exists(svc, blob, container, fault, store, clock) }

\* Each read of the blob service sends at most one request, and a transport failure
\* on it ends the call with the service's domain error.
BlobReadsSendOneRequest ==
    \A svc \in BlobServices, blob \in BlobNames, container \in ContainerArgs,
       fault \in BlobFaults, store \in Stores, clock \in 0..MaxClock :
        \A out \in BlobReadOutcomes(svc, blob, container, fault, store, clock) :
            /\ Len(out.reqs) <= 1
            /\ (Len(out.reqs) = 1 /\ fault = "transport")
                    => Raises(out, "BlobStorageError")

----------------------------------------------------------------------------
(* Claims about the /blobs router *)

\* C19: HEAD /blobs/{blob_name} answers 404 whenever blob_exists returned False, and
\* answers 500 only when a service call raised a storage error.
C19_HeadNotFound ==
    last.op = "http_check_blob_exists"
        => /\ (last.http.calls[1].ok /\ last.http.calls[1].val = Bool(FALSE))
                  => last.http.status = 404
           /\ last.http.status = 500 => Raises(last.http.svc, "BlobStorageError")

BlobContentEndpoints ==
    {"http_get_blob_content", "http_get_blob_stream", "http_get_blob_metadata"}

\* C20: on the content, stream and metadata endpoints a BlobNotFoundError from any
\* service call gives 404 with the service's message as detail, any other exception
\* gives 500 with the detail 'Internal server error', and 200 is answered only when
\* every service call of the handler succeeded.
C20_StatusFromServiceOutcome ==
    last.op \in BlobContentEndpoints
        => LET calls == last.http.calls
               failed == { i \in DOMAIN calls : ~calls[i].ok }
           IN  /\ \A i \in failed :
                    IF Raises(calls[i], "BlobNotFoundError")
                    THEN last.http.status = 404 /\ last.http.detail = calls[i].exc.msg
                    ELSE /\ last.http.status = 500
                         /\ last.http.detail = <<"Internal server error">>
               /\ last.http.status = 200 <=> failed = {}
               /\ last.http.status \in {200, 404, 500}

\* The content endpoint answers 404, with the service's message, when its second
\* service call finds the blob gone.
C20_Witness ==
    /\ last.op = "http_get_blob_content"
    /\ Len(last.http.calls) = 2
    /\ last.http.calls[1].ok
    /\ Raises(last.http.svc, "BlobNotFoundError")
    /\ last.http.status = 404
    /\ last.http.detail = last.http.svc.exc.msg

----------------------------------------------------------------------------
(* Claims about the /sessions router *)

ExecuteHandlers == {"execute_code_handler", "execute_code_simple_handler"}
SessionHandlerOps == {"get_session_status_handler", "delete_session_handler"}
SessionEndpoints == ExecuteHandlers \cup SessionHandlerOps \cup {"create_session_handler"}

----------------------------------------------------------------------------
(* Claims about metadata, delegated URLs and tokens *)

\* C22: on every access path, the "metadata" field get_blob_metadata returns is
\* the custom metadata stored on the object the request met.
C22_MetadataIsStoredMetadata ==
    (last.op = "get_blob_metadata" /\ last.out.ok) =>
        last.out.val.metadata = last.env.answer.body.metadata

\* urllib.parse.urlsplit on the characters of a URL: the path runs from the first
\* "/" after the host to the first "?" or "#", the query from that "?" on.
FirstIndex(chars, marks) ==
    IF \E i \in DOMAIN chars : chars[i] \in marks
    THEN CHOOSE i \in DOMAIN chars :
            /\ chars[i] \in marks
            /\ \A j \in 1..(i - 1) : chars[j] \notin marks
    ELSE Len(chars) + 1

urlsplit(chars) ==
    LET pathStart == FirstIndex(chars, {"/"})
        pathEnd == FirstIndex(chars, {"?", "#"})
        path == SubSeq(chars, pathStart + 1, pathEnd - 1)
        slash == FirstIndex(path, {"/"})
    IN  [container |-> SubSeq(path, 1, slash - 1),
         blob |-> SubSeq(path, slash + 1, Len(path)),
         query |-> SubSeq(chars, pathEnd + 1, Len(chars))]

\* C23: the URL get_blob_url_with_sas returns for a ttl in [1, 24], parsed as a
\* URL, gives back the container and blob name it was asked for and a token that
\* expires no later than ttl hours after it was issued.
C23_UrlRoundTrip ==
    (/\ last.op = "get_blob_url_with_sas"
     /\ last.out.ok
     /\ TtlInRange(last.args.expires_in_hours)) =>
        LET parsed == urlsplit(UrlText(last.out.val))
            container == IF last.args.container_name = "" THEN DefaultContainer
                         ELSE last.args.container_name
        IN  /\ parsed.container = Text(container)
            /\ parsed.blob = Text(last.args.blob_name)
            /\ Len(parsed.query) = 1
            /\ parsed.query[1].expiry <= last.args.issued + last.args.expires_in_hours

\* A token that grants read only and names exactly the (container, blob) of the
\* request, the default container standing for none given.
ReadTokenFor(token, blob_name, container_name, default_container) ==
    /\ token.kind = "sas"
    /\ token.permission = {"read"}
    /\ token.blob = blob_name
    /\ token.container = IF container_name = "" THEN default_container
                         ELSE container_name

\* Every token the blob service mints for a read is such a token, for the blob the
\* read asks for.
BlobReadsMintReadTokens ==
    \A svc \in BlobServices, blob \in BlobNames, container \in ContainerArgs,
       fault \in BlobFaults, store \in Stores, clock \in 0..MaxClock :
        \A out \in BlobReadOutcomes(svc, blob, container, fault, store, clock) :
            \A i \in DOMAIN out.reqs :
                out.reqs[i].via = "sas"
                    => ReadTokenFor(out.reqs[i].token, blob, container,
                                    svc.default_container)

\* C24: every token minted, by the SAS service, through the SAS endpoint or inside
\* the blob service, grants read permission only and is scoped to the one
\* (container, blob) pair of the request that minted it, the default container
\* standing for none given.
C24_TokensReadOnlyAndScoped ==
    /\ (last.op = "generate_blob_read_sas" /\ last.out.ok)
            => ReadTokenFor(last.out.val, last.args.blob_name,
                            last.args.container_name, DefaultContainer)
    /\ (last.op = "get_blob_url_with_sas" /\ last.out.ok)
            => ReadTokenFor(last.out.val.sas, last.args.blob_name,
                            last.args.container_name, DefaultContainer)
    /\ (last.op = "http_get_blob_sas_token" /\ last.http.status = 200)
            => /\ ReadTokenFor(last.out.val.sas_token, last.args.blob_name,
                               last.args.container_name, DefaultContainer)
               /\ ReadTokenFor(last.out.val.blob_url.sas, last.args.blob_name,
                               last.args.container_name, DefaultContainer)
    /\ BlobReadsMintReadTokens

C24_Witness ==
    /\ last.op = "http_get_blob_sas_token"
    /\ last.http.status = 200
    /\ last.args.container_name = "docs"
    /\ last.out.val.sas_token.container = "docs"
    /\ last.out.val.sas_token.permission = {"read"}

----------------------------------------------------------------------------
(* Claims about error messages *)

\* The transport failure of RequestErrorMsg, worded otherwise by the library.
OtherRequestErrorMsg == <<"Connection timed out">>

\* C25: the message of a domain error does not depend on the wording of the
\* underlying transport or SDK exception: a session operation whose request met a
\* transport failure raises the message it would raise had the transport error
\* been worded otherwise.
C25_MessageIndependentOfWording ==
    (/\ last.op \in SessionOps
     /\ Len(last.out.reqs) = 1
     /\ last.env.answer.kind = "transport"
     /\ Raises(last.out, "DynamicSessionsError"))
        => last.out.exc.msg
             = SessionHandlers(Raise("httpx.RequestError", OtherRequestErrorMsg,
                                     last.out)).exc.msg

----------------------------------------------------------------------------
(* Claims about readiness *)

CheckWord(check) == IF check.val.b THEN "ok" ELSE "error"

\* C26: get_readiness_status reports "ready" exactly when both checks return
\* True and reports each check as "ok" or "error" by its own result; GET
\* /health/ready answers 200 exactly when the status is "ready", else 503.
C26_ReadinessIsConjunction ==
    (last.op \in {"get_readiness_status", "readiness_check"} /\ last.out.ok) =>
        /\ (last.out.val.status = "ready")
                <=> (last.env.database.val.b /\ last.env.external_apis.val.b)
        /\ last.out.val.status \in {"ready", "not_ready"}
        /\ last.out.val.checks.database = CheckWord(last.env.database)
        /\ last.out.val.checks.external_apis = CheckWord(last.env.external_apis)
        /\ last.op = "readiness_check"
                => /\ (last.http.status = 200) <=> (last.out.val.status = "ready")
                   /\ (last.http.status = 503) <=> (last.out.val.status # "ready")
                   /\ last.http.response = last.out.val

C26_Witness ==
    /\ last.op = "readiness_check"
    /\ last.out.ok
    /\ last.env.database.val.b
    /\ ~last.env.external_apis.val.b
    /\ last.http.status = 503
    /\ last.http.response.checks.external_apis = "error"

----------------------------------------------------------------------------
(* Claims about the application *)

\* C27: in the application create_app builds, a POST to
\* /sessions/{session_id}/execute with valid code, served by a sessions service
\* that returns a result, answers 200 with the session id and status
\* "completed"; a 404 of the control plane on GET /sessions/{session_id} is
\* answered 404 by the session handler.
C27_SessionsRouterServed ==
    /\ (/\ last.op = "POST /sessions/{session_id}/execute"
        /\ CodeExecutionRequestValid(last.args.code)
        /\ last.env.outcome.ok)
            => /\ last.http.status = 200
               /\ last.http.called
               /\ last.http.response.session_id = last.args.session_id
               /\ last.http.response.status = "completed"
    /\ (/\ last.op = "GET /sessions/{session_id}"
        /\ last.env.token = "ok"
        /\ last.env.answer.kind = "response"
        /\ last.env.answer.status = 404)
            => /\ last.http.status = 404
               /\ last.http.called

----------------------------------------------------------------------------
(* Claims about concurrent modification and time *)

\* C28: the Content-Length and ETag headers of a 200 response of
\* GET /blobs/{blob_name}/stream describe the bytes streamed, whatever another
\* party does to the blob between the handler's two service calls.
C28_StreamHeadersDescribeBody ==
    (last.op = "http_get_blob_stream" /\ last.http.status = 200) =>
        LET response == last.http.response IN
        /\ response.headers.content_length = Len(response.body)
        /\ \E b \in PresentBlobs :
                /\ b.content = response.body
                /\ Mentions(response.headers.etag, b.etag)

\* What a token's signature is computed over.
Signed(token) ==
    [account |-> token.account, container |-> token.container, blob |-> token.blob,
     permission |-> token.permission, expiry |-> token.expiry]

\* C29: in every 200 response of GET /blobs/{blob_name}/sas the sas_token is the
\* token embedded in the blob_url: same expiry, same signature, whatever time
\* passes while the request is handled.
C29_SasTokenIsUrlToken ==
    (last.op = "http_get_blob_sas_token" /\ last.http.status = 200) =>
        /\ last.out.val.sas_token.expiry = last.out.val.blob_url.sas.expiry
        /\ Signed(last.out.val.sas_token) = Signed(last.out.val.blob_url.sas)

----------------------------------------------------------------------------
(* Claims about booking uploads *)

Succeeded(message) == message[1] = "Successfully Uploaded "

\* C30: a call of upload_blob that returns a success message has stored its
\* booking details in the container of its tenant_id, and a call whose file
\* name was already in the container returns a failure message, not a success.
C30_UploadStoresDetails ==
    (last.op = "upload_blob") =>
        /\ Succeeded(last.out.val.text)
                => tenantStore[<<last.args.tenant_id, BookingFile>>]
                        = File(BookingText(last.args.details))
        /\ (last.env.present_before /\ ~last.env.credential_fails)
                => ~Succeeded(last.out.val.text)

====
